---- MODULE Spec2Model ----
(***************************************************************************)
(* A model of langgraph-kusto: the memory store (KustoStore over           *)
(* KustoMemoryLayer) and the checkpoint saver (KustoCheckpointSaver), both *)
(* writing to append-only raw tables of a remote store that are read back  *)
(* through de-duplicating "live" views.                                    *)
(*                                                                         *)
(* The remote store is modelled by what its commands and queries do:       *)
(*   .set-or-append T <| print ...     appends rows to raw table T         *)
(*   summarize arg_max(C, ..) by K     keeps, per value of K, one row with *)
(*                                     the greatest C; which one when      *)
(*                                     several rows tie is not specified   *)
(*   take n / top n                    any n of the rows / the n greatest  *)
(*   startswith                        string prefix                       *)
(* A query without an order has no row order: every order is possible.     *)
(*                                                                         *)
(* Strings that the code inspects (namespaces) are sequences of            *)
(* characters; strings that are only compared (keys, ids) are TLA+ strings.*)
(***************************************************************************)
EXTENDS Naturals, Sequences, FiniteSets

VARIABLES
    now,         \* the wall clock read by utc_now() / datetime.now()
    hasEmbFn,    \* KustoMemoryLayer._embedding_fn is not None
    initialized, \* KustoStore._initialized
    inflight,    \* the puts that concurrent callers have started and not completed
    storeRaw,    \* <store_table>Raw
    embRaw,      \* <embeddings_table>Raw
    cpRaw,       \* <checkpoints_table>Raw
    wrRaw,       \* <checkpoints_table>WritesRaw
    supplied,    \* history: supplied[i] is the put_writes call that wrote wrRaw[i]
    ret          \* the last call: its name, arguments and returned value

vars == <<now, hasEmbFn, initialized, inflight, storeRaw, embRaw, cpRaw, wrRaw, supplied, ret>>
storeTables == <<storeRaw, embRaw>>
ckptTables == <<cpRaw, wrRaw, supplied>>

(***************************************************************************)
(* Bounds of the model.                                                    *)
(***************************************************************************)
MaxTime == 2
MaxBatch == 2
MaxRows == 3

(***************************************************************************)
(* Option values: None is the empty sequence, Some(x) a one-element one.   *)
(***************************************************************************)
None == <<>>
Some(x) == <<x>>

SeqToSet(s) == {s[i] : i \in 1..Len(s)}

Max(S) == CHOOSE x \in S : \A y \in S : y <= x

(***************************************************************************)
(* Python values that came from JSON: None, str, int, list and dict (its   *)
(* items in order, each <<name, value>>).  The strings the code inspects   *)
(* (field names, paths) are sequences of characters.                       *)
(***************************************************************************)
JNull == [type |-> "null"]
JStr(s) == [type |-> "str", s |-> s]
JNum(n) == [type |-> "num", n |-> n]
JList(items) == [type |-> "list", items |-> items]
JDict(fields) == [type |-> "dict", fields |-> fields]

\* `key in data` and `data[key]` of a dict
HasField(data, name) == \E i \in 1..Len(data.fields) : data.fields[i][1] = name
FieldOf(data, name) ==
    data.fields[CHOOSE i \in 1..Len(data.fields) : data.fields[i][1] = name][2]

(***************************************************************************)
(* memory_layer.py _parse_json_path.                                       *)
(***************************************************************************)
\* str.split(sep)
RECURSIVE Split(_, _)
Split(s, sep) ==
    IF \A i \in 1..Len(s) : s[i] # sep THEN <<s>>
    ELSE LET i == CHOOSE k \in 1..Len(s) : s[k] = sep /\ \A j \in 1..(k - 1) : s[j] # sep
         IN  <<SubSeq(s, 1, i - 1)>> \o Split(SubSeq(s, i + 1, Len(s)), sep)

Digits == <<"0", "1", "2", "3", "4", "5", "6", "7", "8", "9">>
IsDigit(c) == \E d \in 1..10 : Digits[d] = c
DigitValue(c) == (CHOOSE d \in 1..10 : Digits[d] = c) - 1

RECURSIVE DecimalValue(_)
DecimalValue(digits) ==
    IF digits = <<>> THEN 0
    ELSE DecimalValue(SubSeq(digits, 1, Len(digits) - 1)) * 10
            + DigitValue(digits[Len(digits)])

\* int(index) of a decimal numeral with an optional sign; anything else is
\* a ValueError (ok is FALSE)
IsNumeral(body) == body # <<>> /\ \A i \in 1..Len(body) : IsDigit(body[i])

IntOf(sign, body) ==
    IF IsNumeral(body)
    THEN [ok |-> TRUE, neg |-> sign = "-" /\ DecimalValue(body) > 0, n |-> DecimalValue(body)]
    ELSE [ok |-> FALSE, neg |-> FALSE, n |-> 0]

ParseInt(chars) ==
    IF chars # <<>> /\ chars[1] \in {"-", "+"}
    THEN IntOf(chars[1], Tail(chars))
    ELSE IntOf("+", chars)

\* a key of a parsed path: a str (a field name or "*") or an int
StrKey(chars) == [kind |-> "str", s |-> chars]
IntKey(neg, n) == [kind |-> "int", neg |-> neg, n |-> n]
Wildcard == <<"*">>

\* re.match(r"(.+)\[(.*)\]$", segment): the position of the "[" that the
\* greedy (.+) stops before, 0 when the segment does not match
BracketAt(segment) ==
    LET opens == {i \in 2..(Len(segment) - 1) : segment[i] = "["}
    IN  IF Len(segment) >= 3 /\ segment[Len(segment)] = "]" /\ opens # {}
        THEN Max(opens) ELSE 0

\* the keys one segment appends; fault when int(index) raises
ParseIndex(name, int) ==
    IF int.ok THEN [fault |-> FALSE, keys |-> <<StrKey(name), IntKey(int.neg, int.n)>>]
    ELSE [fault |-> TRUE, keys |-> <<StrKey(name)>>]

ParseIndexed(name, index) ==
    IF index = Wildcard THEN [fault |-> FALSE, keys |-> <<StrKey(name), StrKey(Wildcard)>>]
    ELSE ParseIndex(name, ParseInt(index))

ParseSegmentAt(segment, at) ==
    IF at = 0 THEN [fault |-> FALSE, keys |-> <<StrKey(segment)>>]
    ELSE ParseIndexed(SubSeq(segment, 1, at - 1), SubSeq(segment, at + 1, Len(segment) - 1))

ParseSegment(segment) == ParseSegmentAt(segment, BracketAt(segment))

\* the keys of a segment, then those of the segments after it
JoinKeys(first, rest) ==
    IF first.fault THEN first
    ELSE [fault |-> rest.fault, keys |-> first.keys \o rest.keys]

RECURSIVE ParseSegments(_)
ParseSegments(segments) ==
    IF segments = <<>> THEN [fault |-> FALSE, keys |-> <<>>]
    ELSE JoinKeys(ParseSegment(Head(segments)), ParseSegments(Tail(segments)))

ParseJsonPath(path) == ParseSegments(Split(path, "."))

(***************************************************************************)
(* memory_layer.py _traverse_json_path.                                    *)
(***************************************************************************)
RECURSIVE TraverseJsonPath(_, _)
RECURSIVE TraverseItems(_, _)

\* faulty variant: the elements of the array are visited last to first
RECURSIVE TraverseItemsReversed(_, _)
TraverseItemsReversed(items, remaining) ==
    IF items = <<>> THEN <<>>
    ELSE TraverseItemsReversed(Tail(items), remaining)
            \o TraverseJsonPath(Head(items), remaining)

\* `for item in data: results.extend(_traverse_json_path(item, remaining))`
TraverseItems(items, remaining) ==
    IF items = <<>> THEN <<>>
    ELSE TraverseJsonPath(Head(items), remaining) \o TraverseItems(Tail(items), remaining)

TraverseJsonPath(data, keys) ==
    IF keys = <<>> THEN <<data>>
    ELSE LET key == Head(keys)
             remaining == Tail(keys)
         IN  IF key = StrKey(Wildcard)
             THEN IF data.type # "list" THEN <<>>
                  ELSE TraverseItems(data.items, remaining)
             ELSE IF key.kind = "int"
             THEN IF data.type # "list" THEN <<>>
                  ELSE IF ~key.neg /\ key.n < Len(data.items)
                       THEN TraverseJsonPath(data.items[key.n + 1], remaining)
                  ELSE IF key.neg /\ key.n <= Len(data.items)
                       THEN TraverseJsonPath(data.items[Len(data.items) - key.n + 1],
                                             remaining)
                  ELSE <<>>
             ELSE IF data.type # "dict" THEN <<>>
             ELSE IF ~HasField(data, key.s) THEN <<>>
             ELSE TraverseJsonPath(FieldOf(data, key.s), remaining)

(***************************************************************************)
(* Inputs of the memory store.                                             *)
(***************************************************************************)
NsA == << <<"a">> >>                 \* ("a",)
NsA_B == << <<"a">>, <<"b">> >>      \* ("a", "b")
NsAb == << <<"a", "b">> >>           \* ("ab",)
NsB == << <<"b">> >>                 \* ("b",)

PutNamespaces == {NsA, NsA_B, NsAb}
QueryNamespaces == {NsA, NsA_B, NsAb, NsB}
PutKeys == {"k1"}
\* the (namespace, key) pairs that are read: every namespace with the key that
\* is written, and one key that never is
GetTargets == {<<ns, "k1">> : ns \in QueryNamespaces} \cup {<<NsA, "k2">>}
FText == <<"t", "e", "x", "t">>
FTitle == <<"t", "i", "t", "l", "e">>
FItems == <<"i", "t", "e", "m", "s">>
V1 == JDict(<< <<FText, JStr(<<"x">>)>> >>)      \* {"text": "x"}
V2 == JDict(<< <<FText, JStr(<<"y">>)>> >>)      \* {"text": "y"}
Values == {V1, V2}
EmptyDict == JDict(<<>>)                         \* {}
IndexDefault == [kind |-> "none"]                \* PutOp.index is None
IndexDisabled == [kind |-> "false"]              \* PutOp.index is False
IndexList(paths) == [kind |-> "list", paths |-> paths]
Indexes == {IndexDefault, IndexDisabled}

(***************************************************************************)
(* translator.py: namespace tuple -> "/"-joined string.                    *)
(***************************************************************************)
RECURSIVE NamespaceToStr(_)
NamespaceToStr(ns) ==
    IF Len(ns) = 0 THEN <<>>
    ELSE IF Len(ns) = 1 THEN ns[1]
    ELSE ns[1] \o <<"/">> \o NamespaceToStr(Tail(ns))

(***************************************************************************)
(* KQL `startswith`.                                                       *)
(***************************************************************************)
StartsWith(s, p) == Len(p) <= Len(s) /\ SubSeq(s, 1, Len(p)) = p

(***************************************************************************)
(* setup_environment.py: the live views.                                   *)
(* ArgMaxViews(tagged), tagged the rows each with its key and its column,  *)
(* is the set of results that                                              *)
(*   rows | summarize arg_max(Col, ..) by Key | where Deleted == false     *)
(* can have: one row of greatest Col per key, any of them on a tie.        *)
(***************************************************************************)
ArgMaxViews(tagged) ==
    LET keys == {e.key : e \in tagged}
        Cand(k) == {e \in tagged : /\ e.key = k
                                   /\ \A q \in tagged : q.key = k => q.col <= e.col}
        picks == {f \in [keys -> tagged] : \A k \in keys : f[k] \in Cand(k)}
    IN  {{f[k].row : k \in {x \in keys : f[x].row.Deleted = FALSE}} : f \in picks}

StoreKey(r) == <<r.Namespace, r.Key>>
UpdatedAtOf(r) == r.UpdatedAt
CreatedAtOf(r) == r.CreatedAt
EmbKey(r) == <<r.Namespace, r.ParentKey, r.ChunkOrdinal>>

\* faulty variant: the store view without `where Deleted == false`
StoreViewsKeepDeleted(raw) ==
    ArgMaxViews({[key |-> StoreKey(r), col |-> UpdatedAtOf(r), row |-> [r EXCEPT !.Deleted = FALSE]]
                    : r \in SeqToSet(raw)})

\* faulty variant: the row appended last stands for its key
StoreViewsLastAppended(raw) ==
    ArgMaxViews({[key |-> StoreKey(raw[i]), col |-> i, row |-> raw[i]] : i \in 1..Len(raw)})

StoreViews(raw) ==
    ArgMaxViews({[key |-> StoreKey(r), col |-> UpdatedAtOf(r), row |-> r] : r \in SeqToSet(raw)})

EmbViews(raw) ==
    ArgMaxViews({[key |-> EmbKey(r), col |-> CreatedAtOf(r), row |-> r] : r \in SeqToSet(raw)})

(***************************************************************************)
(* kql_builder.py: the rows a query's where-clause keeps.                  *)
(***************************************************************************)
MemoryGetByKey(view, namespace, key) ==
    {r \in view : StartsWith(r.Namespace, namespace) /\ r.Key = key}

MemoryGetCreatedAt(view, namespace, key) ==
    {r \in view : StartsWith(r.Namespace, namespace) /\ r.Key = key}

MemoryEmbeddingGetCreatedAt(view, namespace, parentKey, ordinal) ==
    {r \in view : /\ StartsWith(r.Namespace, namespace)
                  /\ r.ParentKey = parentKey
                  /\ r.ChunkOrdinal = ordinal}

(***************************************************************************)
(* Texts: json.dumps(v) writes the strings of v in double quotes, a str    *)
(* taken as it is has none around it, and replace('"', "'") turns double   *)
(* quotes into single ones.                                                *)
(***************************************************************************)
JsonDumps(v) == [text |-> v, quotes |-> "double"]
RawStr(v) == [text |-> v, quotes |-> "none"]
ReplaceQuotes(s) == IF s.quotes = "double" THEN [s EXCEPT !.quotes = "single"] ELSE s

(***************************************************************************)
(* The embedding function: some function from texts to vectors.  Here the  *)
(* texts of V1 and "x" lie on one axis, those of V2 and "y" on the other,  *)
(* and every other text between the two.                                   *)
(***************************************************************************)
Vector(text) ==
    IF text.text \in {V1, JStr(<<"x">>)} THEN <<1, 0>>
    ELSE IF text.text \in {V2, JStr(<<"y">>)} THEN <<0, 1>>
    ELSE <<1, 1>>

EmbeddingFn(text) == [vector |-> Vector(text), uri |-> "model"]

(***************************************************************************)
(* memory_layer.py _extract_fields: the <<path, serialized value>> of the  *)
(* values at the paths, in path order; fault when a path does not parse.   *)
(***************************************************************************)
SerializeField(v) == IF v.type = "str" THEN RawStr(v) ELSE JsonDumps(v)

FieldsOf(path, values) == [i \in 1..Len(values) |-> <<path, SerializeField(values[i])>>]

ExtractField(value, path, parsed) ==
    IF parsed.fault THEN [fault |-> TRUE, fields |-> <<>>]
    ELSE [fault |-> FALSE, fields |-> FieldsOf(path, TraverseJsonPath(value, parsed.keys))]

\* the fields of a path, then those of the paths after it
JoinFields(first, rest) ==
    IF first.fault \/ rest.fault THEN [fault |-> TRUE, fields |-> <<>>]
    ELSE [fault |-> FALSE, fields |-> first.fields \o rest.fields]

RECURSIVE ExtractFields(_, _)
ExtractFields(value, paths) ==
    IF paths = <<>> THEN [fault |-> FALSE, fields |-> <<>>]
    ELSE JoinFields(ExtractField(value, Head(paths), ParseJsonPath(Head(paths))),
                    ExtractFields(value, Tail(paths)))

(***************************************************************************)
(* memory_layer.py: _enrich_command_with_embeddings for a MemoryPut.       *)
(* PutTexts: the texts the embedding function is called with, in order,    *)
(* when no call raises.  EnrichPut: the chunks <<ordinal, chunk_string,    *)
(* vector>> of the command.                                                *)
(***************************************************************************)
TextsOf(extracted) ==
    [fault |-> extracted.fault,
     texts |-> [i \in 1..Len(extracted.fields) |-> extracted.fields[i][2]]]

PutTexts(value, index) ==
    IF ~hasEmbFn THEN [fault |-> FALSE, texts |-> <<>>]
    ELSE IF index.kind = "false" THEN [fault |-> FALSE, texts |-> <<>>]
    ELSE IF index.kind = "none" THEN [fault |-> FALSE, texts |-> <<JsonDumps(value)>>]
    ELSE TextsOf(ExtractFields(value, index.paths))

\* faulty variant: the ordinals of the chunks start at 1
ChunksFromOne(texts) ==
    [i \in 1..Len(texts) |-> <<i, texts[i], EmbeddingFn(texts[i]).vector>>]

\* `for ordinal, (path, text) in enumerate(field_values)`
Chunks(texts) ==
    [i \in 1..Len(texts) |-> <<i - 1, texts[i], EmbeddingFn(texts[i]).vector>>]

EnrichPut(value, index) == Chunks(PutTexts(value, index).texts)

(***************************************************************************)
(* memory_layer.py: the row _put_raw appends, and the tombstone of         *)
(* _execute_put.                                                           *)
(***************************************************************************)
PutRow(namespace, key, value, createdAt, t) ==
    [Namespace |-> namespace, Key |-> key, Value |-> value,
     CreatedAt |-> createdAt, UpdatedAt |-> t, Tags |-> EmptyDict,
     Deleted |-> FALSE]

TombstoneRow(namespace, key, t) ==
    [Namespace |-> namespace, Key |-> key, Value |-> EmptyDict,
     CreatedAt |-> t, UpdatedAt |-> t, Tags |-> EmptyDict,
     Deleted |-> TRUE]

EmbRow(namespace, key, chunk, createdAt) ==
    [Namespace |-> namespace, ParentKey |-> key, ChunkOrdinal |-> chunk[1],
     ChunkString |-> ReplaceQuotes(chunk[2]), Embedding |-> chunk[3],
     EmbeddingUri |-> "model", CreatedAt |-> createdAt, Deleted |-> FALSE]

(***************************************************************************)
(* memory_layer.py _ingest_rows: `.set-or-append table <| print ...`.      *)
(***************************************************************************)
\* faulty variant: `.set-or-replace` in place of `.set-or-append`
IngestRowsReplace(table, rows) == rows

IngestRows(table, rows) == table \o rows

(***************************************************************************)
(* The CreatedAt values a lookup `... | take 1 | project CreatedAt` can    *)
(* resolve to: that of any matching live row, the current time when there  *)
(* is none.                                                                *)
(***************************************************************************)
ResolveCreatedAt(matches, t) ==
    IF matches = {} THEN {t} ELSE {r.CreatedAt : r \in matches}

(***************************************************************************)
(* memory_layer.py _put_raw and _put_embeddings at time t: the contents    *)
(* the two raw tables can have afterwards.                                 *)
(***************************************************************************)
PutRawResults(store, emb, namespace, key, value, chunks, t) ==
    {[store |-> IngestRows(store, <<PutRow(namespace, key, value, createdAt, t)>>),
      emb |-> IngestRows(emb, [i \in 1..Len(chunks) |->
                                  EmbRow(namespace, key, chunks[i], cs[i])])]
     : createdAt \in UNION {ResolveCreatedAt(MemoryGetCreatedAt(view, namespace, key), t)
                               : view \in StoreViews(store)},
       cs \in {c \in [1..Len(chunks) -> 1..MaxTime] :
                 \A i \in 1..Len(chunks) :
                    \E ev \in EmbViews(emb) :
                       c[i] \in ResolveCreatedAt(
                           MemoryEmbeddingGetCreatedAt(ev, namespace, key, chunks[i][1]), t)}}

(***************************************************************************)
(* memory_layer.py execute for a MemoryPut at time t: the enrichment, in   *)
(* which any call of the embedding function may raise, then _execute_put.  *)
(* An outcome is the two raw tables afterwards, the fault raised ("" when  *)
(* none) and the texts the embedding function was called with.             *)
(***************************************************************************)
\* faulty variant: a tombstone is appended before the embedding function is
\* called
EnrichFaultsAfterWrite(store, emb, enriched) ==
    {[store |-> IngestRows(store, <<TombstoneRow(<<>>, "k1", 1)>>), emb |-> emb,
      fault |-> "embedding", embedded |-> SubSeq(enriched.texts, 1, k)]
     : k \in 1..Len(enriched.texts)}

EnrichFaults(store, emb, enriched) ==
    {[store |-> store, emb |-> emb, fault |-> "embedding",
      embedded |-> SubSeq(enriched.texts, 1, k)] : k \in 1..Len(enriched.texts)}
    \cup (IF enriched.fault
          THEN {[store |-> store, emb |-> emb, fault |-> "ValueError", embedded |-> <<>>]}
          ELSE {})

\* a put of a value
PutOutcomesOf(store, emb, namespace, key, value, enriched, chunks, t) ==
    EnrichFaults(store, emb, enriched)
    \cup (IF enriched.fault THEN {}
          ELSE {[store |-> r.store, emb |-> r.emb, fault |-> "", embedded |-> enriched.texts]
                : r \in PutRawResults(store, emb, namespace, key, value, chunks, t)})

PutOutcomes(store, emb, ns, key, value, index, t) ==
    PutOutcomesOf(store, emb, NamespaceToStr(ns), key, value,
                  PutTexts(value, index), EnrichPut(value, index), t)

\* a put of None
DeleteOutcomesOf(store, emb, namespace, key, enriched, t) ==
    EnrichFaults(store, emb, enriched)
    \cup (IF enriched.fault THEN {}
          ELSE {[store |-> IngestRows(store, <<TombstoneRow(namespace, key, t)>>),
                 emb |-> emb, fault |-> "", embedded |-> enriched.texts]})

DeleteOutcomes(store, emb, ns, key, index, t) ==
    DeleteOutcomesOf(store, emb, NamespaceToStr(ns), key, PutTexts(JNull, index), t)

(***************************************************************************)
(* Inputs of the checkpoint saver.  A config is its "configurable" part;   *)
(* an absent thread_id or checkpoint_id is the empty string, which the     *)
(* code treats alike (`if not thread_id`, `if checkpoint_id`).             *)
(***************************************************************************)
Config(t, ns, id) == [thread_id |-> t, checkpoint_ns |-> ns, checkpoint_id |-> id]

\* <<thread, checkpoint namespace, checkpoint id of the config, id of the
\* checkpoint>> of the calls of put
CpPutInputs == {<<"t1", "", "", "c1">>, <<"t1", "", "c1", "c2">>, <<"t1", "", "", "c2">>,
                <<"t2", "", "", "c2">>, <<"t1", "n1", "", "c1">>}
DeleteThreads == {"t1"}

Pair(ch, v) == [type |-> "tuple", channel |-> ch, value |-> v]
W1 == <<Pair("ch1", "x"), Pair("ch2", "y")>>
W2 == <<Pair("ch2", "z")>>
\* <<config, task id, writes>> of the calls of put_writes
PutWritesInputs ==
    ({Config("t1", "", "c1"), Config("t1", "", "c2")}
        \X {<<"k1", W1>>, <<"k2", W2>>, <<"k1", <<>> >>})
    \cup {<<Config("t1", "", ""), <<"k1", W1>> >>}

GetTupleConfigs == {Config("t1", "", ""), Config("t1", "", "c1"),
                    Config("t1", "", "c2"), Config("t2", "", ""),
                    Config("", "", "c1")}
ListConfigs == {Config("t1", "", ""), Config("t2", "", "")}
ListBefores == {"", "c2"}
ListLimits == {0, 1}                 \* 0: no limit (None)

(***************************************************************************)
(* checkpoint.py: the serializer, by what the code does with it.           *)
(* put stores the checkpoint as the dict that unpackb gives; get_tuple     *)
(* packs a dict again and loads it. put_writes stores the list of pairs    *)
(* as msgpack arrays, which come back as lists.                            *)
(***************************************************************************)
SnapshotOf(checkpoint) == [type |-> "dict", body |-> checkpoint]
EmptySnapshot == [type |-> "dict", body |-> [id |-> "", ts |-> 0]]
LoadSnapshot(snapshot) == snapshot.body

SerializeWrites(writes) ==
    [i \in 1..Len(writes) |-> [writes[i] EXCEPT !.type = "list"]]

\* faulty variant: the lists are handed on as they are
ListsToTuplesOmitted(writesList) == writesList

\* `tuple(item) if isinstance(item, list) else item`
ListsToTuples(writesList) ==
    [i \in 1..Len(writesList) |->
        IF writesList[i].type = "list"
        THEN [writesList[i] EXCEPT !.type = "tuple"]
        ELSE writesList[i]]

(***************************************************************************)
(* checkpoint.py: _insert_checkpoint_row, _insert_checkpoint_writes_row.   *)
(***************************************************************************)
\* faulty variant: the row names the checkpoint itself as its parent
CheckpointRowSelfParent(t, ns, id, parent, snapshot, deleted, at) ==
    [ThreadId |-> t, CheckpointNamespace |-> ns, CheckpointId |-> id,
     ParentCheckpointId |-> id, Snapshot |-> snapshot, CreatedAt |-> at,
     Deleted |-> deleted]

CheckpointRow(t, ns, id, parent, snapshot, deleted, at) ==
    [ThreadId |-> t, CheckpointNamespace |-> ns, CheckpointId |-> id,
     ParentCheckpointId |-> parent, Snapshot |-> snapshot, CreatedAt |-> at,
     Deleted |-> deleted]

WritesRow(t, ns, id, task, writes, at) ==
    [ThreadId |-> t, CheckpointNamespace |-> ns, CheckpointId |-> id,
     TaskId |-> task, Writes |-> writes, CreatedAt |-> at]

CpKey(r) == <<r.ThreadId, r.CheckpointNamespace, r.CheckpointId>>

\* faulty variant: the checkpoints view without `where Deleted == false`
CpViewsKeepDeleted(raw) ==
    ArgMaxViews({[key |-> CpKey(r), col |-> CreatedAtOf(r), row |-> [r EXCEPT !.Deleted = FALSE]]
                    : r \in SeqToSet(raw)})

CpViews(raw) ==
    ArgMaxViews({[key |-> CpKey(r), col |-> CreatedAtOf(r), row |-> r] : r \in SeqToSet(raw)})

(***************************************************************************)
(* Orders of rows.                                                         *)
(***************************************************************************)
Perms(S) == {f \in [1..Cardinality(S) -> S] : \A x \in S : \E i \in DOMAIN f : f[i] = x}

\* `order by CreatedAt desc`: rows of equal CreatedAt in any order
OrderByCreatedAtDesc(rows) ==
    {f \in Perms(rows) :
        \A i, j \in DOMAIN f : i < j => f[i].CreatedAt >= f[j].CreatedAt}

\* faulty variant: `top 1 by CreatedAt asc`
Top1ByCreatedAtAsc(rows) == {r \in rows : \A q \in rows : r.CreatedAt <= q.CreatedAt}

\* `top 1 by CreatedAt desc`
Top1ByCreatedAt(rows) == {r \in rows : \A q \in rows : q.CreatedAt <= r.CreatedAt}

Take(s, n) == SubSeq(s, 1, IF n < Len(s) THEN n ELSE Len(s))

RECURSIVE Flatten(_)
Flatten(ss) == IF Len(ss) = 0 THEN <<>> ELSE Head(ss) \o Flatten(Tail(ss))

(***************************************************************************)
(* checkpoint.py get_tuple, lines 129-159: the pending writes of a         *)
(* checkpoint, for each order in which the writes query can return rows.   *)
(***************************************************************************)
WritesQuery(t, ns, id) ==
    {i \in 1..Len(wrRaw) : /\ wrRaw[i].ThreadId = t
                           /\ wrRaw[i].CheckpointNamespace = ns
                           /\ wrRaw[i].CheckpointId = id}

PendingWrites(t, ns, id) ==
    {LET all_writes == Flatten([k \in DOMAIN order |->
                                  ListsToTuples(wrRaw[order[k]].Writes)])
     IN  IF all_writes = <<>> THEN None ELSE Some(all_writes)
     : order \in Perms(WritesQuery(t, ns, id))}

(***************************************************************************)
(* checkpoint.py get_tuple / list: the CheckpointTuple built from a row.   *)
(***************************************************************************)
ParentConfig(t, ns, row) ==
    IF row.ParentCheckpointId # ""
    THEN Some(Config(t, ns, row.ParentCheckpointId))
    ELSE None

CheckpointTuple(t, ns, row, pending) ==
    [config |-> Config(t, ns, row.CheckpointId),
     checkpoint |-> LoadSnapshot(row.Snapshot),
     parent_config |-> ParentConfig(t, ns, row),
     pending_writes |-> pending]

\* faulty variant: the query does not filter by thread
GetTupleRowsOfAnyThread(view, config) ==
    IF config.checkpoint_id # ""
    THEN {r \in view : /\ r.CheckpointNamespace = config.checkpoint_ns
                       /\ r.CheckpointId = config.checkpoint_id}
    ELSE Top1ByCreatedAt({r \in view : r.CheckpointNamespace = config.checkpoint_ns})

\* the rows the checkpoint query of get_tuple can return first
GetTupleRows(view, config) ==
    IF config.checkpoint_id # ""
    THEN {r \in view : /\ r.ThreadId = config.thread_id
                       /\ r.CheckpointNamespace = config.checkpoint_ns
                       /\ r.CheckpointId = config.checkpoint_id}
    ELSE Top1ByCreatedAt({r \in view : /\ r.ThreadId = config.thread_id
                                       /\ r.CheckpointNamespace = config.checkpoint_ns})

\* the values get_tuple(config) can return in the current state
GetTupleResults(config) ==
    IF config.thread_id = "" THEN {None}
    ELSE UNION {
        IF GetTupleRows(view, config) = {} THEN {None}
        ELSE UNION {
                {Some(CheckpointTuple(config.thread_id, config.checkpoint_ns, row, pending)) :
                    pending \in PendingWrites(config.thread_id, config.checkpoint_ns,
                                              row.CheckpointId)}
                : row \in GetTupleRows(view, config)}
        : view \in CpViews(cpRaw)}

\* the queries get_tuple(config) has sent when it returns res: none without
\* a thread id, the checkpoint query, and the writes query when a row is found
GetTupleQueries(config, res) ==
    IF config.thread_id = "" THEN 0 ELSE IF res = None THEN 1 ELSE 2

(***************************************************************************)
(* checkpoint.py list: the timestamps the lookup of `before` can give, the *)
(* rows of the main query, and the sequences of tuples list can yield.     *)
(***************************************************************************)
BeforeQuery(view, before) == {r.CreatedAt : r \in {q \in view : q.CheckpointId = before}}

ListRows(view, config, hasBeforeTs, beforeTs) ==
    {r \in view : /\ config.thread_id # "" => r.ThreadId = config.thread_id
                  /\ config.checkpoint_ns # "" => r.CheckpointNamespace = config.checkpoint_ns
                  /\ hasBeforeTs => r.CreatedAt < beforeTs}

ListTuple(row) ==
    CheckpointTuple(row.ThreadId, row.CheckpointNamespace, row, None)

ListYield(view, config, hasBeforeTs, beforeTs, limit) ==
    {LET taken == IF limit # 0 THEN Take(rows, limit) ELSE rows
     IN  [i \in 1..Len(taken) |-> ListTuple(taken[i])]
     : rows \in OrderByCreatedAtDesc(ListRows(view, config, hasBeforeTs, beforeTs))}

ListResults(config, before, limit) ==
    UNION {
        IF before # "" /\ BeforeQuery(bview, before) # {}
        THEN UNION {ListYield(view, config, TRUE, ts, limit) :
                       ts \in BeforeQuery(bview, before)}
        ELSE ListYield(view, config, FALSE, 0, limit)
        : bview \in CpViews(cpRaw), view \in CpViews(cpRaw)}

(***************************************************************************)
(* Search.  kql_builder.py memory_search_by_similarity:                    *)
(*   emb | extend Score = series_cosine_similarity(Embedding, q)           *)
(*       | top limit by Score desc                                         *)
(*       | summarize arg_max(Score, ..) by ParentKey                       *)
(*       | join kind=inner (store) on $left.ParentKey == $right.Key        *)
(*       | project Namespace, Key, Value, Tags, ChunkString, ...           *)
(* with store and emb the two live views filtered by namespace.            *)
(***************************************************************************)
Dot(v, w) == v[1] * w[1] + v[2] * w[2]

\* series_cosine_similarity, scaled: 4 cos^2 of the angle between two
\* vectors that have no negative component
CosineScore(v, q) == (4 * Dot(v, q) * Dot(v, q)) \div (Dot(v, v) * Dot(q, q))

Min(a, b) == IF a <= b THEN a ELSE b

\* `top n by Score desc`: the sets of n rows of greatest Score
TopByScore(scored, n) ==
    {T \in SUBSET scored :
        /\ Cardinality(T) = Min(n, Cardinality(scored))
        /\ \A a \in T, b \in scored \ T : a.Score >= b.Score}

\* `summarize arg_max(Score, ..) by ParentKey`: one row of greatest Score
\* for each ParentKey, any of them on a tie
ArgMaxScoreByParentKey(scored) ==
    LET keys == {e.ParentKey : e \in scored}
        Cand(k) == {e \in scored : /\ e.ParentKey = k
                                   /\ \A q \in scored : q.ParentKey = k => q.Score <= e.Score}
    IN  {{f[k] : k \in keys} : f \in {g \in [keys -> scored] : \A k \in keys : g[k] \in Cand(k)}}

ScoredRow(e, q) ==
    [Namespace |-> e.Namespace, ParentKey |-> e.ParentKey, ChunkOrdinal |-> e.ChunkOrdinal,
     ChunkString |-> e.ChunkString, EmbeddingUri |-> e.EmbeddingUri,
     Score |-> CosineScore(e.Embedding, q)]

SimilarityRow(e, r) ==
    [Namespace |-> e.Namespace, Key |-> r.Key, Value |-> r.Value, Tags |-> r.Tags,
     ChunkString |-> e.ChunkString, ChunkOrdinal |-> e.ChunkOrdinal,
     EmbeddingUri |-> e.EmbeddingUri, Score |-> e.Score,
     JoinedNamespace |-> r.Namespace]    \* not projected: keeps equal rows apart

\* the sets of rows the query can return
MemorySearchBySimilarity(storeView, embView, namespace, q, limit) ==
    LET store == {r \in storeView : StartsWith(r.Namespace, namespace)}
        emb == {e \in embView : StartsWith(e.Namespace, namespace)}
        scored == {ScoredRow(e, q) : e \in emb}
    IN  UNION {{{SimilarityRow(e, r) : <<e, r>> \in {<<x, y>> \in summarized \X store :
                                                      x.ParentKey = y.Key}}
                : summarized \in ArgMaxScoreByParentKey(top)}
               : top \in TopByScore(scored, limit)}

(***************************************************************************)
(* kql_builder.py memory_search_by_content:                                *)
(*   view | where Namespace startswith ns | where tostring(Value) has q    *)
(*        | take limit | project Namespace, Key, Value, Tags, CreatedAt,   *)
(*          UpdatedAt                                                      *)
(* `has` finds a whole term: here the terms of a value are its field names *)
(* and its strings.                                                        *)
(***************************************************************************)
RECURSIVE Terms(_)
RECURSIVE TermsOfItems(_)
RECURSIVE TermsOfFields(_)
TermsOfItems(items) ==
    IF items = <<>> THEN {} ELSE Terms(Head(items)) \cup TermsOfItems(Tail(items))
TermsOfFields(fields) ==
    IF fields = <<>> THEN {}
    ELSE {Head(fields)[1]} \cup Terms(Head(fields)[2]) \cup TermsOfFields(Tail(fields))
Terms(v) ==
    IF v.type = "str" THEN {v.s}
    ELSE IF v.type = "list" THEN TermsOfItems(v.items)
    ELSE IF v.type = "dict" THEN TermsOfFields(v.fields)
    ELSE {}

ContentRow(r) ==
    [Namespace |-> r.Namespace, Key |-> r.Key, Value |-> r.Value, Tags |-> r.Tags,
     CreatedAt |-> r.CreatedAt, UpdatedAt |-> r.UpdatedAt]

\* the sets of rows the query can return: `take` keeps any limit of them
MemorySearchByContent(storeView, namespace, query, limit) ==
    LET found == {r \in storeView : /\ StartsWith(r.Namespace, namespace)
                                    /\ query \in Terms(r.Value)}
    IN  {{ContentRow(r) : r \in T} :
            T \in {U \in SUBSET found : Cardinality(U) = Min(limit, Cardinality(found))}}

(***************************************************************************)
(* translator.py _str_to_namespace and translate_search_result: a row      *)
(* without CreatedAt (a similarity row) gets the time of the call.         *)
(***************************************************************************)
StrToNamespace(namespace) == IF namespace = <<>> THEN <<>> ELSE Split(namespace, "/")

NoScore == [none |-> TRUE]

TranslateSimilarityRow(row, t) ==
    [namespace |-> StrToNamespace(row.Namespace), key |-> row.Key, value |-> row.Value,
     created_at |-> t, updated_at |-> t, score |-> row.Score]

TranslateContentRow(row) ==
    [namespace |-> StrToNamespace(row.Namespace), key |-> row.Key, value |-> row.Value,
     created_at |-> row.CreatedAt, updated_at |-> row.UpdatedAt, score |-> NoScore]

\* rows[offset : offset + limit]
Slice(rows, offset, limit) == SubSeq(rows, offset + 1, Min(offset + limit, Len(rows)))

(***************************************************************************)
(* memory_layer.py execute for a MemorySearch at time t: the enrichment    *)
(* (one call of the embedding function when there is one and the query is  *)
(* not empty, which may raise), then _execute_search.  An outcome is the   *)
(* fault raised, the texts embedded, the query that was run ("similarity", *)
(* "text", or "" when none was) and the items returned.                    *)
(***************************************************************************)
SearchOutcomes(store, emb, ns, query, limit, offset, t) ==
    LET namespace == NamespaceToStr(ns)
        text == RawStr(JStr(query))
        embeds == hasEmbFn /\ query # <<>>
    IN  IF embeds
        THEN {[fault |-> "embedding", embedded |-> <<text>>, ran |-> "", result |-> <<>>]}
             \cup
             UNION {{[fault |-> "", embedded |-> <<text>>, ran |-> "similarity",
                      result |-> LET kept == Slice(rows, offset, limit)
                                 IN  [i \in 1..Len(kept) |-> TranslateSimilarityRow(kept[i], t)]]
                     : rows \in UNION {Perms(R) : R \in MemorySearchBySimilarity(
                                          sv, ev, namespace, EmbeddingFn(text).vector, limit)}}
                    : sv \in StoreViews(store), ev \in EmbViews(emb)}
        ELSE UNION {{[fault |-> "", embedded |-> <<>>, ran |-> "text",
                      result |-> LET kept == Slice(rows, offset, limit)
                                 IN  [i \in 1..Len(kept) |-> TranslateContentRow(kept[i])]]
                     : rows \in UNION {Perms(R) : R \in MemorySearchByContent(
                                          sv, namespace, query, limit)}}
                    : sv \in StoreViews(store)}

\* the rows that calls have appended, the chunks of a put not counted apart
TotalRows == Len(storeRaw) + Len(cpRaw) + Len(wrRaw)

Init ==
    /\ now = 1
    /\ hasEmbFn \in BOOLEAN
    /\ initialized = FALSE
    /\ inflight = <<>>
    /\ storeRaw = <<>>
    /\ embRaw = <<>>
    /\ cpRaw = <<>>
    /\ wrRaw = <<>>
    /\ supplied = <<>>
    /\ ret = [op |-> "init"]

(***************************************************************************)
(* The clock advances between calls, or does not.                          *)
(***************************************************************************)
Tick ==
    /\ now < MaxTime
    /\ now' = now + 1
    /\ ret' = [op |-> "tick"]
    /\ UNCHANGED <<hasEmbFn, initialized, inflight, storeTables, ckptTables>>

(***************************************************************************)
(* store.py batch([PutOp(ns, key, value, index)]) with a value:            *)
(* translate_op, _enrich_command_with_embeddings, _execute_put, _put_raw,  *)
(* _put_embeddings.                                                        *)
(***************************************************************************)
Put(ns, key, value, index) ==
    /\ TotalRows + 1 <= MaxRows
    /\ \E out \in PutOutcomes(storeRaw, embRaw, ns, key, value, index, now) :
          /\ storeRaw' = out.store
          /\ embRaw' = out.emb
          /\ ret' = [op |-> "put", ns |-> ns, key |-> key, value |-> value,
                     index |-> index, at |-> now, embedded |-> out.embedded,
                     fault |-> out.fault, result |-> None]
    /\ initialized' = TRUE
    /\ UNCHANGED <<now, hasEmbFn, inflight, ckptTables>>

(***************************************************************************)
(* store.py batch([PutOp(ns, key, None, index)]): the enrichment, then the *)
(* tombstone of _execute_put.                                              *)
(***************************************************************************)
Delete(ns, key, index) ==
    /\ TotalRows + 1 <= MaxRows
    /\ \E out \in DeleteOutcomes(storeRaw, embRaw, ns, key, index, now) :
          /\ storeRaw' = out.store
          /\ embRaw' = out.emb
          /\ ret' = [op |-> "delete", ns |-> ns, key |-> key, index |-> index,
                     at |-> now, embedded |-> out.embedded, fault |-> out.fault,
                     result |-> None]
    /\ initialized' = TRUE
    /\ UNCHANGED <<now, hasEmbFn, inflight, ckptTables>>

(***************************************************************************)
(* translator.py translate_get_result: the Item built from the row that    *)
(* memory_get_by_key projects to its Value column.                         *)
(***************************************************************************)
ProjectValue(r) == [Value |-> r.Value]

TranslateGetResult(row, ns, key, t) ==
    [value |-> row.Value, key |-> key, namespace |-> ns,
     created_at |-> t, updated_at |-> t]

(***************************************************************************)
(* The values batch([GetOp(ns, key)]) can return in the current state,     *)
(* called at time t: _execute_get takes the first row of the result.       *)
(***************************************************************************)
GetResultsOn(store, ns, key, t) ==
    UNION {
        IF MemoryGetByKey(view, NamespaceToStr(ns), key) = {}
        THEN {None}
        ELSE {Some(TranslateGetResult(ProjectValue(r), ns, key, t)) :
                 r \in MemoryGetByKey(view, NamespaceToStr(ns), key)}
        : view \in StoreViews(store)}

GetResults(ns, key, t) == GetResultsOn(storeRaw, ns, key, t)

Get(ns, key) ==
    /\ \E res \in GetResults(ns, key, now) :
          ret' = [op |-> "get", ns |-> ns, key |-> key, at |-> now, result |-> res]
    /\ initialized' = TRUE
    /\ UNCHANGED <<now, hasEmbFn, inflight, storeTables, ckptTables>>

(***************************************************************************)
(* store.py batch([SearchOp(ns, query=, limit=, offset=)]).                *)
(***************************************************************************)
Search(ns, query, limit, offset) ==
    /\ \E out \in SearchOutcomes(storeRaw, embRaw, ns, query, limit, offset, now) :
          ret' = [op |-> "search", ns |-> ns, query |-> query, limit |-> limit,
                  offset |-> offset, at |-> now, embedded |-> out.embedded,
                  fault |-> out.fault, ran |-> out.ran, result |-> out.result]
    /\ initialized' = TRUE
    /\ UNCHANGED <<now, hasEmbFn, inflight, storeTables, ckptTables>>

(***************************************************************************)
(* store.py batch(ops) and abatch(ops) with several operations.  An op is  *)
(* a PutOp (a null value deletes), a GetOp or a SearchOp.                  *)
(***************************************************************************)
PutOp(ns, key, value, index) ==
    [kind |-> "put", ns |-> ns, key |-> key, value |-> value, index |-> index]
GetOp(ns, key) == [kind |-> "get", ns |-> ns, key |-> key]
SearchOp(ns, query, limit, offset) ==
    [kind |-> "search", ns |-> ns, query |-> query, limit |-> limit, offset |-> offset]

(***************************************************************************)
(* memory_layer.py execute(command, client) at time t on the given raw     *)
(* tables: the tables afterwards, the fault raised and the translated      *)
(* result.  The client can reject any round trip: the first of the op, or  *)
(* the append of the embedding rows after the row of the put is appended.  *)
(***************************************************************************)
PutOpOutcomes(emb, outs) ==
    {[store |-> o.store, emb |-> o.emb, fault |-> o.fault, result |-> None] : o \in outs}
    \cup
    {[store |-> o.store, emb |-> emb, fault |-> "rejected", result |-> None]
     : o \in {x \in outs : x.fault = "" /\ x.emb # emb}}

OpOutcomes(store, emb, op, t) ==
    {[store |-> store, emb |-> emb, fault |-> "rejected", result |-> None]}
    \cup
    IF op.kind = "get"
    THEN {[store |-> store, emb |-> emb, fault |-> "", result |-> res]
          : res \in GetResultsOn(store, op.ns, op.key, t)}
    ELSE IF op.kind = "search"
    THEN {[store |-> store, emb |-> emb, fault |-> o.fault, result |-> o.result]
          : o \in SearchOutcomes(store, emb, op.ns, op.query, op.limit, op.offset, t)}
    ELSE IF op.value = JNull
    THEN {[store |-> o.store, emb |-> o.emb, fault |-> o.fault, result |-> None]
          : o \in DeleteOutcomes(store, emb, op.ns, op.key, op.index, t)}
    ELSE PutOpOutcomes(emb, PutOutcomes(store, emb, op.ns, op.key, op.value, op.index, t))

\* faulty variant: every op of a batch is sent against the tables the batch
\* found
TablesAfterStale(store, emb, out) == [store |-> store, emb |-> emb]

\* the tables the next op of the loop of batch is executed against
TablesAfter(store, emb, out) == [store |-> out.store, emb |-> out.emb]

(***************************************************************************)
(* store.py batch: the loop over ops from time t on, the clock advancing   *)
(* between two ops or not.  A run is the tables and the time at its end,   *)
(* the fault that ended it ("" when none), the number of ops executed, the *)
(* results appended, and the tables and time each executed op started on.  *)
(***************************************************************************)
\* the runs that continue `run` with op: none when a fault has ended it
BatchStep(run, op) ==
    IF run.fault # "" THEN {run}
    ELSE UNION {
           {[store |-> IF out.fault = "" THEN TablesAfter(run.store, run.emb, out).store
                       ELSE out.store,
             emb |-> IF out.fault = "" THEN TablesAfter(run.store, run.emb, out).emb
                     ELSE out.emb,
             t |-> t2, fault |-> out.fault, executed |-> run.executed + 1,
             results |-> IF out.fault = "" THEN Append(run.results, out.result) ELSE <<>>,
             before |-> Append(run.before, [store |-> run.store, emb |-> run.emb, t |-> t2])]
            : out \in OpOutcomes(run.store, run.emb, op, t2)}
           : t2 \in IF run.executed = 0 THEN {run.t} ELSE run.t..Min(run.t + 1, MaxTime)}

\* the runs of the first i ops
RECURSIVE BatchAfter(_, _, _, _, _)
BatchAfter(store, emb, t, ops, i) ==
    IF i = 0
    THEN {[store |-> store, emb |-> emb, t |-> t, fault |-> "", executed |-> 0,
           results |-> <<>>, before |-> <<>>]}
    ELSE UNION {BatchStep(run, ops[i]) : run \in BatchAfter(store, emb, t, ops, i - 1)}

BatchRuns(store, emb, t, ops) == BatchAfter(store, emb, t, ops, Len(ops))

\* a fault leaves batch through the loop: the results appended are lost
Batch(ops) ==
    /\ TotalRows + Len(ops) <= MaxRows
    /\ \E run \in BatchRuns(storeRaw, embRaw, now, ops) :
          /\ storeRaw' = run.store
          /\ embRaw' = run.emb
          /\ now' = run.t
          /\ ret' = [op |-> "batch", ops |-> ops, at |-> now, fault |-> run.fault,
                     executed |-> run.executed,
                     result |-> IF run.fault = "" THEN run.results ELSE <<>>,
                     before |-> run.before]
    /\ initialized' = TRUE
    /\ UNCHANGED <<hasEmbFn, inflight, ckptTables>>

(***************************************************************************)
(* setup_environment.py initialize_kusto: the commands it sends through    *)
(* client.execute_command, the synchronous call.                           *)
(***************************************************************************)
InitializeCommands == 8

(***************************************************************************)
(* store.py abatch: _a_ensure_initialized, then aexecute of the first op,  *)
(* which enriches the command and then awaits a call of the client that    *)
(* raises NotImplementedError.  An outcome is the fault and the number of  *)
(* commands sent through the synchronous calls of the client.              *)
(***************************************************************************)
AEnrichedFaults(enriched) ==
    {o.fault : o \in EnrichFaults(<<>>, <<>>, enriched)}
    \cup (IF enriched.fault THEN {} ELSE {"NotImplementedError"})

AExecuteFaults(op) ==
    IF op.kind = "get" THEN {"NotImplementedError"}
    ELSE IF op.kind = "search"
    THEN IF hasEmbFn /\ op.query # <<>>
         THEN {"embedding", "NotImplementedError"} ELSE {"NotImplementedError"}
    ELSE AEnrichedFaults(PutTexts(op.value, op.index))

ABatchOutcomes(ops) ==
    LET sent == IF initialized THEN 0 ELSE InitializeCommands
    IN  IF ops = <<>> THEN {[fault |-> "", sync_commands |-> sent]}
        ELSE {[fault |-> f, sync_commands |-> sent] : f \in AExecuteFaults(Head(ops))}

ABatch(ops) ==
    /\ \E out \in ABatchOutcomes(ops) :
          ret' = [op |-> "abatch", ops |-> ops, at |-> now, fault |-> out.fault,
                  sync_commands |-> out.sync_commands, result |-> <<>>]
    /\ initialized' = TRUE
    /\ UNCHANGED <<now, hasEmbFn, inflight, storeTables, ckptTables>>

\* the ops and the batches of the specification of batch
BatchOps ==
    {PutOp(NsA, "k1", V1, IndexDisabled), PutOp(NsA, "k1", V2, IndexDefault),
     PutOp(NsA, "k1", JNull, IndexDefault), GetOp(NsA, "k1"),
     SearchOp(NsA, <<"x">>, 2, 0)}
Batches == UNION {[1..n -> BatchOps] : n \in 0..MaxBatch}

BatchNext ==
    \/ Tick
    \/ \E ops \in Batches : Batch(ops)
    \/ \E ops \in Batches : ABatch(ops)

BatchSpec == Init /\ [][BatchNext]_vars

\* the calls of the specification of search: records under two keys, one of
\* them under two namespaces, and queries whose vector lies on the axis of
\* V1, on that of V2, and between the two
SearchPuts == {<<NsA, "k1", V1>>, <<NsA, "k2", V2>>, <<NsA_B, "k1", V2>>}
SearchQueries == {<<"x">>, <<"y">>, <<"z">>}
SearchLimits == {1, 2}
SearchOffsets == {0, 1}

SearchNext ==
    \/ Tick
    \/ \E p \in SearchPuts, index \in Indexes : Put(p[1], p[2], p[3], index)
    \/ \E query \in SearchQueries, limit \in SearchLimits, offset \in SearchOffsets :
          Search(NsA, query, limit, offset)

SearchSpec == Init /\ [][SearchNext]_vars

(***************************************************************************)
(* memory_layer.py _parse_json_path and _traverse_json_path on their own:  *)
(* the documents and the paths they are applied to.  A path is written     *)
(* from its segments, each a field name with nothing, "[*]" or "[n]" after *)
(* it, joined by ".".                                                      *)
(***************************************************************************)
FArr == <<"a", "r", "r">>
FRows == <<"r", "o", "w", "s">>
FCells == <<"c", "e", "l", "l", "s">>
FMissing == <<"m", "i", "s", "s", "i", "n", "g">>

SA == JStr(<<"a">>)
SB == JStr(<<"b">>)
SC == JStr(<<"c">>)

\* {"items": [{"text": "a"}, {"text": "b"}]}
DocItems ==
    JDict(<< <<FItems, JList(<<JDict(<< <<FText, SA>> >>), JDict(<< <<FText, SB>> >>)>>)>> >>)
\* {"items": [{"text": "a"}, {"title": "c"}, {"text": "b"}]}
DocMixed ==
    JDict(<< <<FItems, JList(<<JDict(<< <<FText, SA>> >>), JDict(<< <<FTitle, SC>> >>),
                              JDict(<< <<FText, SB>> >>)>>)>> >>)
\* {"arr": [1, 2], "title": "a"}
DocArr == JDict(<< <<FArr, JList(<<JNum(1), JNum(2)>>)>>, <<FTitle, SA>> >>)
\* {"rows": [{"cells": ["a", "b"]}, {"cells": ["c"]}]}
DocRows ==
    JDict(<< <<FRows, JList(<<JDict(<< <<FCells, JList(<<SA, SB>>)>> >>),
                             JDict(<< <<FCells, JList(<<SC>>)>> >>)>>)>> >>)
\* {"items": {"text": "a"}}
DocNoList == JDict(<< <<FItems, JDict(<< <<FText, SA>> >>)>> >>)

PathDocs == {DocItems, DocMixed, DocArr, DocRows, DocNoList, JNull}

SubNone == [kind |-> "none"]
SubAll == [kind |-> "all"]
SubAt(n) == [kind |-> "at", n |-> n]
Segment(name, sub) == [name |-> name, sub |-> sub]

MaxPath == 2
PathNames == {FItems, FText, FArr, FTitle, FRows, FCells, FMissing}
PathSubs == {SubNone, SubAll, SubAt(0), SubAt(1), SubAt(5)}
PathSegments == {Segment(name, sub) : name \in PathNames, sub \in PathSubs}
Paths == UNION {[1..n -> PathSegments] : n \in 1..MaxPath}

SegmentText(seg) ==
    seg.name \o (IF seg.sub.kind = "none" THEN <<>>
                  ELSE IF seg.sub.kind = "all" THEN <<"[", "*", "]">>
                  ELSE <<"[", Digits[seg.sub.n + 1], "]">>)

RECURSIVE PathText(_)
PathText(segs) ==
    IF Len(segs) = 1 THEN SegmentText(segs[1])
    ELSE SegmentText(segs[1]) \o <<".">> \o PathText(Tail(segs))

PathInit ==
    /\ now = 1
    /\ hasEmbFn = FALSE
    /\ initialized = FALSE
    /\ inflight = <<>>
    /\ storeRaw = <<>>
    /\ embRaw = <<>>
    /\ cpRaw = <<>>
    /\ wrRaw = <<>>
    /\ supplied = <<>>
    /\ \E data \in PathDocs, segs \in Paths :
          ret = [op |-> "path", data |-> data, segments |-> segs, path |-> PathText(segs)]

\* _traverse_json_path(data, _parse_json_path(path))
Traverse ==
    /\ ret.op = "path"
    /\ LET parsed == ParseJsonPath(ret.path)
       IN  ret' = [op |-> "traverse", data |-> ret.data, segments |-> ret.segments,
                   path |-> ret.path, fault |-> parsed.fault,
                   result |-> IF parsed.fault THEN <<>>
                              ELSE TraverseJsonPath(ret.data, parsed.keys)]
    /\ UNCHANGED <<now, hasEmbFn, initialized, inflight, storeTables, ckptTables>>

PathSpec == PathInit /\ [][Traverse]_vars

(***************************************************************************)
(* Puts under every indexing configuration: disabled, default, and lists   *)
(* of paths without wildcard, some of which a value does not have.         *)
(***************************************************************************)
MaxIndexed == 2
MaxIndexPaths == 2
IndexPathSegments ==
    {<<Segment(FTitle, SubNone)>>, <<Segment(FMissing, SubNone)>>,
     <<Segment(FArr, SubAt(0))>>, <<Segment(FItems, SubAt(1)), Segment(FText, SubNone)>>}
IndexPaths == {PathText(segs) : segs \in IndexPathSegments}
IndexConfigs ==
    {IndexDisabled, IndexDefault}
    \cup {IndexList(paths) : paths \in UNION {[1..n -> IndexPaths] : n \in 1..MaxIndexPaths}}
IndexValues == {DocArr, DocItems}

IndexNext ==
    \/ Tick
    \/ /\ Len(storeRaw) < MaxIndexed
       /\ \E value \in IndexValues, index \in IndexConfigs : Put(NsA, "k1", value, index)

IndexSpec == Init /\ [][IndexNext]_vars

(***************************************************************************)
(* Two callers put the same (namespace, key) at once, each running         *)
(* memory_layer.py _put_raw without an embedding function: utc_now(), the  *)
(* lookup of CreatedAt, the append.  inflight[p] is where caller p stands  *)
(* and what it holds; other callers read the record meanwhile.             *)
(***************************************************************************)
Callers == {1, 2}
CallerValue(p) == IF p = 1 THEN V1 ELSE V2
ConcNs == NsA
ConcKey == "k1"

Waiting(p) == [pc |-> "start", value |-> CallerValue(p), t |-> 0, created_at |-> 0]

\* the record is new, or was put at time 1
ConcInit ==
    /\ now = 1
    /\ hasEmbFn = FALSE
    /\ initialized = TRUE
    /\ inflight = [p \in Callers |-> Waiting(p)]
    /\ storeRaw \in {<<>>, <<PutRow(NamespaceToStr(ConcNs), ConcKey, DocArr, 1, 1)>>}
    /\ embRaw = <<>>
    /\ cpRaw = <<>>
    /\ wrRaw = <<>>
    /\ supplied = <<>>
    /\ ret = [op |-> "init"]

\* now = utc_now()
TakeTimestamp(p) ==
    /\ inflight[p].pc = "start"
    /\ inflight' = [inflight EXCEPT ![p].pc = "stamped", ![p].t = now]
    /\ ret' = [op |-> "put_step", caller |-> p, step |-> "utc_now"]
    /\ UNCHANGED <<now, hasEmbFn, initialized, storeTables, ckptTables>>

\* client.execute_query(memory_get_created_at(..))
LookupCreatedAt(p) ==
    /\ inflight[p].pc = "stamped"
    /\ \E view \in StoreViews(storeRaw) :
          \E c \in ResolveCreatedAt(
                     MemoryGetCreatedAt(view, NamespaceToStr(ConcNs), ConcKey), inflight[p].t) :
             inflight' = [inflight EXCEPT ![p].pc = "looked", ![p].created_at = c]
    /\ ret' = [op |-> "put_step", caller |-> p, step |-> "lookup"]
    /\ UNCHANGED <<now, hasEmbFn, initialized, storeTables, ckptTables>>

\* self._ingest_rows(client, raw_table, rows)
AppendRow(p) ==
    /\ inflight[p].pc = "looked"
    /\ storeRaw' = IngestRows(storeRaw,
                      <<PutRow(NamespaceToStr(ConcNs), ConcKey, inflight[p].value,
                               inflight[p].created_at, inflight[p].t)>>)
    /\ inflight' = [inflight EXCEPT ![p].pc = "done"]
    /\ ret' = [op |-> "put_step", caller |-> p, step |-> "append"]
    /\ UNCHANGED <<now, hasEmbFn, initialized, embRaw, ckptTables>>

PutStep(p) == TakeTimestamp(p) \/ LookupCreatedAt(p) \/ AppendRow(p)

ConcNext ==
    \/ Tick
    \/ \E p \in Callers : TakeTimestamp(p)
    \/ \E p \in Callers : LookupCreatedAt(p)
    \/ \E p \in Callers : AppendRow(p)
    \/ Get(ConcNs, ConcKey)

ConcSpec == ConcInit /\ [][ConcNext]_vars

StoreNext ==
    \/ Tick
    \/ \E ns \in PutNamespaces, key \in PutKeys, value \in Values, index \in Indexes :
          Put(ns, key, value, index)
    \/ \E ns \in PutNamespaces, key \in PutKeys, index \in Indexes : Delete(ns, key, index)
    \/ \E g \in GetTargets : Get(g[1], g[2])

StoreSpec == Init /\ [][StoreNext]_vars

(***************************************************************************)
(* checkpoint.py put(config, checkpoint, ...): the checkpoint `id`, made   *)
(* at the current time, is put with the config of thread t, namespace ns   *)
(* and checkpoint id `parent`.                                             *)
(***************************************************************************)
CpPut(t, ns, parent, id) ==
    LET checkpoint == [id |-> id, ts |-> now]
    IN  /\ TotalRows + 1 <= MaxRows
        /\ cpRaw' = Append(cpRaw, CheckpointRow(t, ns, id, parent,
                                                SnapshotOf(checkpoint), FALSE, now))
        /\ ret' = [op |-> "cp_put", config |-> Config(t, ns, parent),
                   checkpoint |-> checkpoint, at |-> now,
                   result |-> Config(t, ns, id)]
        /\ UNCHANGED <<now, hasEmbFn, initialized, inflight, storeTables, wrRaw, supplied>>

(***************************************************************************)
(* checkpoint.py put_writes(config, writes, task_id).                      *)
(***************************************************************************)
PutWrites(config, task, writes) ==
    /\ IF config.checkpoint_id = ""
       THEN UNCHANGED <<wrRaw, supplied>>
       ELSE /\ TotalRows + 1 <= MaxRows
            /\ wrRaw' = Append(wrRaw, WritesRow(config.thread_id, config.checkpoint_ns,
                                                config.checkpoint_id, task,
                                                SerializeWrites(writes), now))
            /\ supplied' = Append(supplied, [config |-> config, task |-> task,
                                             writes |-> writes])
    /\ ret' = [op |-> "put_writes", config |-> config, task |-> task,
               writes |-> writes, at |-> now, result |-> None]
    /\ UNCHANGED <<now, hasEmbFn, initialized, inflight, storeTables, cpRaw>>

(***************************************************************************)
(* checkpoint.py delete_thread(thread_id).                                 *)
(***************************************************************************)
DeleteThread(t) ==
    /\ TotalRows + 1 <= MaxRows
    /\ cpRaw' = Append(cpRaw, CheckpointRow(t, "", "", "", EmptySnapshot, TRUE, now))
    /\ ret' = [op |-> "delete_thread", thread_id |-> t, at |-> now, result |-> None]
    /\ UNCHANGED <<now, hasEmbFn, initialized, inflight, storeTables, wrRaw, supplied>>

(***************************************************************************)
(* checkpoint.py get_tuple(config) and list(config, before=, limit=).      *)
(***************************************************************************)
GetTuple(config) ==
    /\ \E res \in GetTupleResults(config) :
          ret' = [op |-> "get_tuple", config |-> config, result |-> res,
                  queries |-> GetTupleQueries(config, res)]
    /\ UNCHANGED <<now, hasEmbFn, initialized, inflight, storeTables, ckptTables>>

List(config, before, limit) ==
    /\ \E res \in ListResults(config, before, limit) :
          ret' = [op |-> "list", config |-> config, before |-> before,
                  limit |-> limit, result |-> res]
    /\ UNCHANGED <<now, hasEmbFn, initialized, inflight, storeTables, ckptTables>>

CkptWrites ==
    \/ \E c \in CpPutInputs : CpPut(c[1], c[2], c[3], c[4])
    \/ \E w \in PutWritesInputs : PutWrites(w[1], w[2][1], w[2][2])
    \/ \E t \in DeleteThreads : DeleteThread(t)

CkptNext ==
    \/ Tick
    \/ CkptWrites
    \/ \E config \in GetTupleConfigs : GetTuple(config)
    \/ \E config \in ListConfigs, before \in ListBefores, limit \in ListLimits :
          List(config, before, limit)

\* the checkpoint saver has no embedding function
CkptInit == Init /\ hasEmbFn = FALSE

CkptSpec == CkptInit /\ [][CkptNext]_vars

(***************************************************************************)
(* The store and the checkpoint saver side by side.                        *)
(***************************************************************************)
Next ==
    \/ Tick
    \/ \E ns \in PutNamespaces, key \in PutKeys, value \in Values, index \in Indexes :
          Put(ns, key, value, index)
    \/ \E ns \in PutNamespaces, key \in PutKeys, index \in Indexes : Delete(ns, key, index)
    \/ \E g \in GetTargets : Get(g[1], g[2])
    \/ CkptWrites
    \/ \E config \in GetTupleConfigs : GetTuple(config)
    \/ \E config \in ListConfigs, before \in ListBefores, limit \in ListLimits :
          List(config, before, limit)

Spec == Init /\ [][Next]_vars

(***************************************************************************)
(* The operations that write, of the store and of the checkpoint saver.    *)
(***************************************************************************)
WriteNext ==
    \/ Tick
    \/ \E ns \in PutNamespaces, key \in PutKeys, value \in Values, index \in Indexes :
          Put(ns, key, value, index)
    \/ \E ns \in PutNamespaces, key \in PutKeys, index \in Indexes : Delete(ns, key, index)
    \/ CkptWrites

WriteSpec == Init /\ [][WriteNext]_vars

(***************************************************************************)
(*                              The claims                                 *)
(***************************************************************************)

\* the positions in storeRaw of the writes made to (namespace, key)
WritesTo(namespace, key) ==
    {i \in 1..Len(storeRaw) : storeRaw[i].Namespace = namespace /\ storeRaw[i].Key = key}

\* the segments of p are the leading segments of n
IsSegmentPrefix(p, n) == Len(p) <= Len(n) /\ SubSeq(n, 1, Len(p)) = p

(***************************************************************************)
(* C1: after put(ns, k, v1) and, at a later clock time, put(ns, k, v2),    *)
(* get(ns, k) returns an item with value v2, created_at the time of the    *)
(* first put and updated_at the time of the second put.                    *)
(***************************************************************************)
C1_PutPutGet ==
    (/\ ret.op = "get"
     /\ Len(storeRaw) = 2
     /\ WritesTo(NamespaceToStr(ret.ns), ret.key) = {1, 2}
     /\ ~storeRaw[1].Deleted /\ ~storeRaw[2].Deleted
     /\ storeRaw[1].UpdatedAt < storeRaw[2].UpdatedAt)
    => /\ ret.result # None
       /\ ret.result[1].value = storeRaw[2].Value
       /\ ret.result[1].created_at = storeRaw[1].UpdatedAt
       /\ ret.result[1].updated_at = storeRaw[2].UpdatedAt

(***************************************************************************)
(* C2, as claimed: once the last write to (ns, k) is put(ns, k, None),     *)
(* made after a put of a value, every get(ns, k) returns None.             *)
(***************************************************************************)
C2Deleted(namespace, key) ==
    LET w == WritesTo(namespace, key)
    IN  /\ w # {}
        /\ storeRaw[Max(w)].Deleted
        /\ \E i \in w : ~storeRaw[i].Deleted

C2_GetAfterDeleteIsAbsent ==
    (ret.op = "get" /\ C2Deleted(NamespaceToStr(ret.ns), ret.key))
    => ret.result = None

(***************************************************************************)
(* C2, amended: once the last write to (ns, k) is put(ns, k, None), made   *)
(* at a later clock time than every earlier write to (ns, k), every        *)
(* get(ns, k) returns None, provided no live record with key k is stored   *)
(* under another namespace whose string starts with the string of ns.      *)
(***************************************************************************)
C2DeletedLater(namespace, key) ==
    LET w == WritesTo(namespace, key)
    IN  \A i \in w \ {Max(w)} : storeRaw[i].UpdatedAt < storeRaw[Max(w)].UpdatedAt

C2NoOtherMatch(namespace, key) ==
    \A view \in StoreViews(storeRaw) :
        \A r \in view :
            (r.Key = key /\ StartsWith(r.Namespace, namespace)) => r.Namespace = namespace

C2_GetAfterLaterDeleteIsAbsent ==
    (/\ ret.op = "get"
     /\ C2Deleted(NamespaceToStr(ret.ns), ret.key)
     /\ C2DeletedLater(NamespaceToStr(ret.ns), ret.key)
     /\ C2NoOtherMatch(NamespaceToStr(ret.ns), ret.key))
    => ret.result = None

\* a get of a deleted record, with a record of another namespace in the log
C2_Witness ==
    /\ ret.op = "get"
    /\ C2Deleted(NamespaceToStr(ret.ns), ret.key)
    /\ C2DeletedLater(NamespaceToStr(ret.ns), ret.key)
    /\ C2NoOtherMatch(NamespaceToStr(ret.ns), ret.key)
    /\ Len(storeRaw) = 3
    /\ ret.result = None

(***************************************************************************)
(* C3: after any sequence of puts and deletes on one (namespace, key), the *)
(* CreatedAt of the live record is the time of the first write ever made   *)
(* to that (namespace, key).                                               *)
(***************************************************************************)
C3_CreatedAtIsFirstWrite ==
    (/\ storeRaw # <<>>
     /\ ~storeRaw[1].Deleted
     /\ \A i \in 1..Len(storeRaw) :
           storeRaw[i].Namespace = storeRaw[1].Namespace /\ storeRaw[i].Key = storeRaw[1].Key)
    => \A view \in StoreViews(storeRaw) :
          \A r \in view : r.CreatedAt = storeRaw[1].UpdatedAt

(***************************************************************************)
(* C4: the raw tables are append-only: every step of a write operation of  *)
(* the store or of the checkpoint saver leaves every row already in a raw  *)
(* table in place and unchanged, and only adds rows after them.            *)
(***************************************************************************)
Extends(new, old) == Len(old) <= Len(new) /\ SubSeq(new, 1, Len(old)) = old

C4_RawTablesAppendOnly ==
    [][/\ Extends(storeRaw', storeRaw)
       /\ Extends(embRaw', embRaw)
       /\ Extends(cpRaw', cpRaw)
       /\ Extends(wrRaw', wrRaw)]_vars

\* an earlier version of a record is still in the raw log after an update,
\* and a checkpoint row after a later checkpoint write
C4_Witness ==
    \/ /\ Len(storeRaw) >= 2
       /\ storeRaw[1].Namespace = storeRaw[2].Namespace
       /\ storeRaw[1].Key = storeRaw[2].Key
       /\ storeRaw[1].Value # storeRaw[2].Value
       /\ Len(cpRaw) = 1
    \/ /\ Len(cpRaw) >= 2
       /\ cpRaw[2].Deleted
       /\ Len(wrRaw) = 1

(***************************************************************************)
(* C5: a live record stored under namespace N is matched by a prefix-mode  *)
(* get for namespace P exactly when the segments of P are the leading      *)
(* segments of N.                                                          *)
(***************************************************************************)
C5_PrefixIsBySegments ==
    \A n \in PutNamespaces, p \in QueryNamespaces :
        \A view \in StoreViews(storeRaw) :
            \A r \in view :
                r.Namespace = NamespaceToStr(n)
                => (r \in MemoryGetByKey(view, NamespaceToStr(p), r.Key)
                    <=> IsSegmentPrefix(p, n))


(***************************************************************************)
(* C6: after put_writes(c, writes, task) for distinct tasks, get_tuple(c)  *)
(* returns pending_writes that are the supplied pairs, each a tuple, every *)
(* task's pairs together and in their order, the tasks in some order.      *)
(***************************************************************************)
C6Calls(config) == {i \in 1..Len(supplied) : supplied[i].config = config}

C6DistinctTasks(config) ==
    \A i, j \in C6Calls(config) : i # j => supplied[i].task # supplied[j].task

C6Pending(tuple) ==
    IF tuple.pending_writes = None THEN <<>> ELSE tuple.pending_writes[1]

C7Puts(config) ==
    {i \in 1..Len(cpRaw) : /\ cpRaw[i].ThreadId = config.thread_id
                           /\ cpRaw[i].CheckpointNamespace = config.checkpoint_ns
                           /\ ~cpRaw[i].Deleted}

C7ClockAdvanced(config) ==
    \A i, j \in C7Puts(config) : i < j => cpRaw[i].CreatedAt < cpRaw[j].CreatedAt

C7Asked(config) ==
    {i \in C7Puts(config) :
        config.checkpoint_id = "" \/ cpRaw[i].CheckpointId = config.checkpoint_id}

C7_GetTupleReturnsMostRecentPut ==
    (/\ ret.op = "get_tuple"
     /\ C7Asked(ret.config) # {}
     /\ C7ClockAdvanced(ret.config))
    => LET row == cpRaw[Max(C7Asked(ret.config))]
       IN  /\ ret.result # None
           /\ ret.result[1].config = Config(ret.config.thread_id, ret.config.checkpoint_ns,
                                            row.CheckpointId)
           /\ ret.result[1].checkpoint = [id |-> row.CheckpointId, ts |-> row.CreatedAt]

\* get_tuple without an id after two puts at different times
C7_Witness ==
    /\ ret.op = "get_tuple"
    /\ ret.config.checkpoint_id = ""
    /\ Cardinality(C7Puts(ret.config)) = 2
    /\ C7ClockAdvanced(ret.config)
    /\ ret.result # None
    /\ ret.result[1].checkpoint.ts = now

(***************************************************************************)
(* C8: put(config, checkpoint) appends one checkpoint row, whose           *)
(* ParentCheckpointId is the checkpoint id of the config (empty when there *)
(* is none), and returns a config naming the checkpoint; when the          *)
(* checkpoint id is new to the thread and namespace, get_tuple of the      *)
(* returned config has then a parent_config naming the config's checkpoint *)
(* id, or None when the config had none.                                   *)
(***************************************************************************)
C8NewId(config, id) ==
    \A i \in 1..Len(cpRaw) :
        ~(/\ cpRaw[i].ThreadId = config.thread_id
          /\ cpRaw[i].CheckpointNamespace = config.checkpoint_ns
          /\ cpRaw[i].CheckpointId = id)

C8Returned == {Config(t, ns, id) : t \in {"t1", "t2"}, ns \in {"", "n1"}, id \in {"c1", "c2"}}

C8PutStep ==
    ret'.op = "cp_put" =>
        LET config == ret'.config
            id == ret'.checkpoint.id
            row == cpRaw'[Len(cpRaw')]
        IN  /\ Len(cpRaw') = Len(cpRaw) + 1
            /\ SubSeq(cpRaw', 1, Len(cpRaw)) = cpRaw
            /\ wrRaw' = wrRaw
            /\ row.ThreadId = config.thread_id
            /\ row.CheckpointNamespace = config.checkpoint_ns
            /\ row.CheckpointId = id
            /\ row.ParentCheckpointId = config.checkpoint_id
            /\ ~row.Deleted
            /\ ret'.result = Config(config.thread_id, config.checkpoint_ns, id)
            /\ C8NewId(config, id) =>
                  \A returned \in C8Returned : returned = ret'.result =>
                      \A res \in (GetTupleResults(returned))' :
                          /\ res # None
                          /\ res[1].parent_config =
                                IF config.checkpoint_id = "" THEN None
                                ELSE Some(Config(config.thread_id, config.checkpoint_ns,
                                                 config.checkpoint_id))

C8_PutLinksParent == [][C8PutStep]_vars

\* c2 has just been put with the config that the put of c1 returned
C8_Witness ==
    /\ ret.op = "cp_put"
    /\ ret.config.checkpoint_id = "c1"
    /\ ret.checkpoint.id = "c2"
    /\ Len(cpRaw) = 2
    /\ cpRaw[1].CheckpointId = "c1"
    /\ cpRaw[1].ThreadId = ret.config.thread_id
    /\ cpRaw[1].ParentCheckpointId = ""
    /\ cpRaw[2].ParentCheckpointId = "c1"

(***************************************************************************)
(* C9: list(config, before=c2), c2 a checkpoint of the listed thread and   *)
(* namespace, yields only checkpoints created strictly earlier than c2.    *)
(***************************************************************************)
C9BeforeRows(config, before) ==
    {i \in 1..Len(cpRaw) : /\ cpRaw[i].ThreadId = config.thread_id
                           /\ cpRaw[i].CheckpointNamespace = config.checkpoint_ns
                           /\ cpRaw[i].CheckpointId = before
                           /\ ~cpRaw[i].Deleted}

C9_ListBeforeIsStrictlyEarlier ==
    (/\ ret.op = "list"
     /\ ret.before # ""
     /\ C9BeforeRows(ret.config, ret.before) # {})
    => LET created == cpRaw[Max(C9BeforeRows(ret.config, ret.before))].CreatedAt
       IN  \A i \in 1..Len(ret.result) :
              /\ ret.result[i].config # Config(ret.config.thread_id, ret.config.checkpoint_ns,
                                               ret.before)
              /\ ret.result[i].checkpoint.ts < created

(***************************************************************************)
(* C10: delete_thread(t) appends exactly one row, the tombstone of t with  *)
(* empty namespace and checkpoint id, and changes nothing that get_tuple   *)
(* and list return for thread t.                                           *)
(***************************************************************************)
C10Threads == {"t1", "t2"}
C10Namespaces == {"", "n1"}
C10Ids == {"", "c1", "c2"}
C10Limits == {0, 1, 2}

C10DeleteStep ==
    ret'.op = "delete_thread" =>
        \A t \in C10Threads : t = ret'.thread_id =>
            LET row == cpRaw'[Len(cpRaw')]
            IN  /\ Len(cpRaw') = Len(cpRaw) + 1
                /\ SubSeq(cpRaw', 1, Len(cpRaw)) = cpRaw
                /\ wrRaw' = wrRaw
                /\ row.ThreadId = t
                /\ row.CheckpointNamespace = ""
                /\ row.CheckpointId = ""
                /\ row.Deleted
                /\ \A ns \in C10Namespaces, id \in C10Ids :
                      (GetTupleResults(Config(t, ns, id)))' = GetTupleResults(Config(t, ns, id))
                /\ \A ns \in C10Namespaces, before \in C10Ids, limit \in C10Limits :
                      (ListResults(Config(t, ns, ""), before, limit))'
                          = ListResults(Config(t, ns, ""), before, limit)

C10_DeleteThreadPurgesNothing == [][C10DeleteStep]_vars

\* a thread with a checkpoint and pending writes has been deleted
C10_Witness ==
    /\ ret.op = "delete_thread"
    /\ Len(cpRaw) = 2
    /\ cpRaw[1].ThreadId = ret.thread_id
    /\ ~cpRaw[1].Deleted
    /\ cpRaw[2].Deleted
    /\ Len(wrRaw) = 1
    /\ wrRaw[1].CheckpointId = cpRaw[1].CheckpointId
    /\ GetTupleResults(Config(ret.thread_id, "", "")) # {None}

(***************************************************************************)
(* C11: a similarity search with limit L returns at most L results, in     *)
(* the order of descending score.                                          *)
(***************************************************************************)
C11_SimilarityOrderedAndLimited ==
    (ret.op = "search" /\ ret.ran = "similarity")
    => /\ Len(ret.result) <= ret.limit
       /\ \A i, j \in 1..Len(ret.result) :
             i < j => ret.result[i].score >= ret.result[j].score

(***************************************************************************)
(* C13: when the embedding function raises during a put or a search, the   *)
(* call ends with that fault, no row has been appended to either raw       *)
(* table, and a search has run no query, the text search included.         *)
(***************************************************************************)
C13FaultStep ==
    (ret'.op \in {"put", "delete", "search"} /\ ret'.fault = "embedding")
    => /\ storeRaw' = storeRaw
       /\ embRaw' = embRaw
       /\ ret'.op = "search" => (ret'.ran = "" /\ ret'.result = <<>>)

C13_EmbeddingFaultFailsTheCall == [][C13FaultStep]_vars

\* a search has failed for which the text search would have found a record
C13_Witness ==
    /\ ret.op = "search"
    /\ ret.fault = "embedding"
    /\ storeRaw # <<>>
    /\ \E sv \in StoreViews(storeRaw) :
          MemorySearchByContent(sv, NamespaceToStr(ret.ns), ret.query, ret.limit) # {{}}

(***************************************************************************)
(* C12: a put with a null value appends exactly one row, with Deleted =    *)
(* true, to the main raw table, appends no row to the embedding raw table  *)
(* and makes no call to the embedding function, for every indexing         *)
(* configuration, with or without an embedding function.                   *)
(***************************************************************************)
C12DeleteStep ==
    ret'.op = "delete"
    => /\ Len(storeRaw') = Len(storeRaw) + 1
       /\ SubSeq(storeRaw', 1, Len(storeRaw)) = storeRaw
       /\ storeRaw'[Len(storeRaw')].Deleted
       /\ embRaw' = embRaw
       /\ ret'.embedded = <<>>

C12_NullPutWritesOnlyTombstone == [][C12DeleteStep]_vars

(***************************************************************************)
(* C14: abatch with at least one operation raises the not-implemented      *)
(* fault, and by then no query or command has been sent to the store       *)
(* through the synchronous calls.                                          *)
(***************************************************************************)
C14_ABatchFailsWithoutSyncCalls ==
    (ret.op = "abatch" /\ ret.ops # <<>>)
    => /\ ret.fault = "NotImplementedError"
       /\ ret.sync_commands = 0

(***************************************************************************)
(* C15: when the store rejects one operation of a batch, the other         *)
(* operations of the batch, those after it included, are still executed    *)
(* and their outcomes are reported.                                        *)
(***************************************************************************)
C15_RejectionLeavesOtherOpsRunning ==
    (ret.op = "batch" /\ ret.fault = "rejected")
    => /\ ret.executed = Len(ret.ops)
       /\ Len(ret.result) >= Len(ret.ops) - 1

(***************************************************************************)
(* C16: batch executes its operations one after the other in the given     *)
(* order: every operation runs against the tables as the operation before  *)
(* it left them, so that a get sees the put of the same batch before it,   *)
(* and the list returned has one result per operation, in that order.      *)
(***************************************************************************)
C16ResultsOf(i) ==
    {o \in OpOutcomes(ret.before[i].store, ret.before[i].emb, ret.ops[i], ret.before[i].t) :
        o.fault = ""}

\* ops[j] is a get of the record that ops[i] puts, no op between the two
\* writes the record, and no row written before has the timestamp of the put
C16GetAfterPut(i, j) ==
    /\ i < j
    /\ ret.ops[i].kind = "put" /\ ret.ops[i].value # JNull
    /\ ret.ops[j].kind = "get"
    /\ ret.ops[j].ns = ret.ops[i].ns /\ ret.ops[j].key = ret.ops[i].key
    /\ \A m \in (i + 1)..(j - 1) : ret.ops[m].kind # "put"
    /\ \A n \in 1..Len(ret.before[i].store) :
          ret.before[i].store[n].UpdatedAt < ret.before[i].t

C17Matches(r, config) ==
    /\ r.ThreadId = config.thread_id
    /\ r.CheckpointNamespace = config.checkpoint_ns
    /\ config.checkpoint_id # "" => r.CheckpointId = config.checkpoint_id

C17NoLiveRow(config) ==
    \A view \in CpViews(cpRaw) : \A r \in view : ~C17Matches(r, config)

C17_NotFoundIsNone ==
    ret.op = "get_tuple"
    => /\ ret.config.thread_id = "" => (ret.result = None /\ ret.queries = 0)
       /\ C17NoLiveRow(ret.config) => ret.result = None

\* nothing is found for a thread while checkpoints of other configs are stored
C17_Witness ==
    /\ ret.op = "get_tuple"
    /\ ret.config.thread_id # ""
    /\ cpRaw # <<>>
    /\ C17NoLiveRow(ret.config)
    /\ ret.result = None
    /\ ret.queries = 1

(***************************************************************************)
(* C18: the traversal of a JSON path returns the list of all the values    *)
(* the path reaches, a wildcard standing for every element of the array in *)
(* array order (nested wildcards depth first); a missing field, an index   *)
(* out of range or a value of the wrong shape on the way gives the empty   *)
(* list and no fault.  "items[*].text" over                                *)
(* {"items": [{"text": "a"}, {"text": "b"}]} gives ["a", "b"].             *)
(***************************************************************************)
\* the values one segment reaches from the value v, in order
C18Step(v, seg) ==
    LET field == IF v.type = "dict" /\ HasField(v, seg.name)
                 THEN <<FieldOf(v, seg.name)>> ELSE <<>>
    IN  IF field = <<>> \/ seg.sub.kind = "none" THEN field
        ELSE IF field[1].type # "list" THEN <<>>
        ELSE IF seg.sub.kind = "all" THEN field[1].items
        ELSE IF seg.sub.n < Len(field[1].items) THEN <<field[1].items[seg.sub.n + 1]>>
        ELSE <<>>

\* the values the segments reach from the values of the frontier, segment
\* by segment
RECURSIVE C18Reached(_, _)
C18Reached(frontier, segs) ==
    IF segs = <<>> THEN frontier
    ELSE C18Reached(Flatten([i \in 1..Len(frontier) |-> C18Step(frontier[i], Head(segs))]),
                    Tail(segs))

C18ItemsText == <<Segment(FItems, SubAll), Segment(FText, SubNone)>>

C18_TraversalReachesAllInOrder ==
    ret.op = "traverse"
    => /\ ~ret.fault
       /\ ret.result = C18Reached(<<ret.data>>, ret.segments)
       /\ (ret.data = DocItems /\ ret.segments = C18ItemsText) => ret.result = <<SA, SB>>

\* nested wildcards have been expanded, depth first
C18_Witness ==
    /\ ret.op = "traverse"
    /\ ret.data = DocRows
    /\ ret.path = <<"r", "o", "w", "s", "[", "*", "]", ".", "c", "e", "l", "l", "s", "[", "*", "]">>
    /\ ret.result = <<SA, SB, SC>>

(***************************************************************************)
(* C19: with an embedding function, the enrichment of a put calls it no    *)
(* time when indexing is disabled, once when indexing is the default (one  *)
(* chunk, of ordinal 0, holding the whole serialized value), and for a     *)
(* list of N paths without wildcard once for each path that the value has  *)
(* (at most N times), the chunks getting the ordinals 0..M-1 in the order  *)
(* of the paths.                                                           *)
(***************************************************************************)
C19SegmentsOf(path) == CHOOSE segs \in IndexPathSegments : PathText(segs) = path

\* the values at the paths that the value has, in the order of the paths
C19Existing(value, paths) ==
    Flatten([i \in 1..Len(paths) |-> C18Reached(<<value>>, C19SegmentsOf(paths[i]))])

C19Expected(value, index) ==
    IF index.kind = "false" THEN <<>>
    ELSE IF index.kind = "none" THEN <<JsonDumps(value)>>
    ELSE LET found == C19Existing(value, index.paths)
         IN  [i \in 1..Len(found) |->
                 IF found[i].type = "str" THEN RawStr(found[i]) ELSE JsonDumps(found[i])]

C19PutStep ==
    (ret'.op = "put" /\ hasEmbFn /\ ret'.fault = "")
    => LET new == SubSeq(embRaw', Len(embRaw) + 1, Len(embRaw'))
       IN  \A value \in IndexValues, index \in IndexConfigs :
              (value = ret'.value /\ index = ret'.index)
              => /\ ret'.embedded = C19Expected(value, index)
                 /\ index.kind = "list" => Len(ret'.embedded) <= Len(index.paths)
                 /\ Len(new) = Len(ret'.embedded)
                 /\ \A i \in 1..Len(new) :
                       /\ new[i].ChunkOrdinal = i - 1
                       /\ new[i].ChunkString.text = ret'.embedded[i].text

C19_EmbeddingCallsPerIndex == [][C19PutStep]_vars

\* of two paths the value has only the second, whose chunk has ordinal 0
C19_Witness ==
    /\ ret.op = "put"
    /\ hasEmbFn
    /\ ret.fault = ""
    /\ ret.index.kind = "list"
    /\ Len(ret.index.paths) = 2
    /\ C18Reached(<<ret.value>>, C19SegmentsOf(ret.index.paths[1])) = <<>>
    /\ Len(ret.embedded) = 1
    /\ embRaw # <<>>
    /\ embRaw[Len(embRaw)].ChunkOrdinal = 0

(***************************************************************************)
(* C20: two puts of the same (namespace, key) that run at once do not      *)
(* block each other: whatever the other caller has done, a caller that has *)
(* not finished can take its next step.  Once both have completed, the     *)
(* live view holds the value of the put with the greater UpdatedAt, and a  *)
(* get returns it, in whichever order the two rows were appended.          *)
(***************************************************************************)
C20Winner == IF inflight[1].t > inflight[2].t THEN 1 ELSE 2

C20BothDone ==
    /\ \A p \in Callers : inflight[p].pc = "done"
    /\ inflight[1].t # inflight[2].t

C20_GreatestUpdatedAtWins ==
    /\ \A p \in Callers : inflight[p].pc # "done" => ENABLED PutStep(p)
    /\ C20BothDone
       => /\ \A view \in StoreViews(storeRaw) :
                /\ MemoryGetByKey(view, NamespaceToStr(ConcNs), ConcKey) # {}
                /\ \A r \in MemoryGetByKey(view, NamespaceToStr(ConcNs), ConcKey) :
                      /\ r.Value = inflight[C20Winner].value
                      /\ r.UpdatedAt = inflight[C20Winner].t
          /\ ret.op = "get"
             => /\ ret.result # None
                /\ ret.result[1].value = inflight[C20Winner].value

\* the put with the greater UpdatedAt appended its row first, and a get has
\* returned its value
C20_Witness ==
    /\ C20BothDone
    /\ storeRaw[Len(storeRaw)].UpdatedAt < inflight[C20Winner].t
    /\ ret.op = "get"
    /\ ret.result # None
    /\ ret.result[1].value = inflight[C20Winner].value

(***************************************************************************)
(* C21: after put(ns, k, v1) and a later put(ns, k, v2) under the same     *)
(* indexing configuration, the live embedding view holds for every ordinal *)
(* of v2 exactly one chunk, whose text and vector are those computed from  *)
(* v2 and whose CreatedAt is that of the first write of the ordinal.       *)
(***************************************************************************)
\* every write so far is a put of the record of the last call, the last one
\* later than the first and both with the default index
C21PutTwice ==
    /\ ret.op = "put" /\ ret.fault = "" /\ hasEmbFn
    /\ ret.index = IndexDefault
    /\ Len(storeRaw) >= 2 /\ Len(embRaw) >= 2
    /\ \A i \in 1..Len(storeRaw) :
          /\ storeRaw[i].Namespace = NamespaceToStr(ret.ns)
          /\ storeRaw[i].Key = ret.key
          /\ ~storeRaw[i].Deleted
    /\ storeRaw[1].UpdatedAt < ret.at

C21_ReembeddingShowsNewChunk ==
    C21PutTwice
    => \A view \in EmbViews(embRaw) :
          /\ Cardinality(view) = 1
          /\ \A r \in view :
                /\ r.ChunkOrdinal = 0
                /\ r.ChunkString.text = ret.value
                /\ r.Embedding = EmbeddingFn(JsonDumps(ret.value)).vector
                /\ r.CreatedAt = embRaw[1].CreatedAt


(***************************************************************************)
(* C22: a search with offset o and limit l over M matching records returns *)
(* min(l, max(0, M - o)) results.  Checked on the text search: the matches *)
(* are the live records under the namespace prefix whose value has the     *)
(* query as a term.                                                        *)
(***************************************************************************)
C22Matches(view, ns, query) ==
    {r \in view : /\ StartsWith(r.Namespace, NamespaceToStr(ns))
                  /\ query \in Terms(r.Value)}

C22PageSize(matches, limit, offset) ==
    Min(limit, IF matches >= offset THEN matches - offset ELSE 0)

C22_PageHoldsItsShare ==
    (ret.op = "search" /\ ret.ran = "text")
    => \E view \in StoreViews(storeRaw) :
          Len(ret.result)
              = C22PageSize(Cardinality(C22Matches(view, ret.ns, ret.query)),
                            ret.limit, ret.offset)


(***************************************************************************)
(* C23: whenever at least N live records in scope have chunks, a           *)
(* similarity search with limit N and offset 0 returns N distinct records, *)
(* and no record left out has a higher best-chunk score than one returned. *)
(***************************************************************************)
C23ChunksOf(embView, r) ==
    {e \in embView : e.Namespace = r.Namespace /\ e.ParentKey = r.Key}

C23InScope(storeView, embView, ns) ==
    {r \in storeView : /\ StartsWith(r.Namespace, NamespaceToStr(ns))
                       /\ C23ChunksOf(embView, r) # {}}

C23Best(embView, r, q) ==
    CHOOSE s \in {CosineScore(e.Embedding, q) : e \in C23ChunksOf(embView, r)} :
        \A e \in C23ChunksOf(embView, r) : CosineScore(e.Embedding, q) <= s

C23Identity(r) == <<StrToNamespace(r.Namespace), r.Key>>

C23Returned(result) == {<<result[i].namespace, result[i].key>> : i \in 1..Len(result)}

C23TopRecords(scope, embView, q, limit, result) ==
    Cardinality(scope) >= limit
    => /\ Len(result) = limit
       /\ Cardinality(C23Returned(result)) = limit
       /\ C23Returned(result) \subseteq {C23Identity(r) : r \in scope}
       /\ \A a, b \in scope :
             (C23Identity(a) \notin C23Returned(result)
                 /\ C23Identity(b) \in C23Returned(result))
             => C23Best(embView, a, q) <= C23Best(embView, b, q)

C23_SimilarityReturnsTopRecords ==
    (ret.op = "search" /\ ret.ran = "similarity" /\ ret.offset = 0)
    => \E storeView \in StoreViews(storeRaw), embView \in EmbViews(embRaw) :
          C23TopRecords(C23InScope(storeView, embView, ret.ns), embView,
                        EmbeddingFn(RawStr(JStr(ret.query))).vector,
                        ret.limit, ret.result)


(***************************************************************************)
(* memory_layer.py _execute_list_namespaces:                               *)
(*   view | distinct Namespace                                             *)
(* in any order; the empty namespace string is dropped, and the rows are   *)
(* sliced by offset and limit.                                             *)
(***************************************************************************)
MemoryListNamespaces(storeView) == Perms({r.Namespace : r \in storeView})

NonEmptyNamespace(namespace) == namespace # <<>>

ExecuteListNamespaces(store, limit, offset) ==
    UNION {{Slice(SelectSeq(rows, NonEmptyNamespace), offset, limit)
              : rows \in MemoryListNamespaces(view)}
           : view \in StoreViews(store)}

(***************************************************************************)
(* translator.py translate_list_namespaces_result: every namespace string  *)
(* becomes a tuple; one that fails a match condition is left out, one      *)
(* longer than max_depth is cut to its first max_depth segments.           *)
(***************************************************************************)
PrefixCond(path) == [match_type |-> "prefix", path |-> path]
SuffixCond(path) == [match_type |-> "suffix", path |-> path]

\* ns[: n]
FirstSegments(ns, n) == SubSeq(ns, 1, Min(n, Len(ns)))
\* ns[-n :], for n > 0
LastSegments(ns, n) == SubSeq(ns, Len(ns) - Min(n, Len(ns)) + 1, Len(ns))

Matches(ns, conditions) ==
    \A c \in 1..Len(conditions) :
        IF conditions[c].match_type = "prefix"
        THEN FirstSegments(ns, Len(conditions[c].path)) = conditions[c].path
        ELSE LastSegments(ns, Len(conditions[c].path)) = conditions[c].path

Truncate(ns, max_depth) ==
    IF max_depth # None /\ Len(ns) > max_depth[1] THEN FirstSegments(ns, max_depth[1]) ELSE ns

RECURSIVE Filtered(_, _, _)
Filtered(namespaces, conditions, max_depth) ==
    IF namespaces = <<>> THEN <<>>
    ELSE (IF Matches(Head(namespaces), conditions)
          THEN <<Truncate(Head(namespaces), max_depth)>>
          ELSE <<>>)
         \o Filtered(Tail(namespaces), conditions, max_depth)

TranslateListNamespacesResult(raw, conditions, max_depth) ==
    Filtered([i \in 1..Len(raw) |-> StrToNamespace(raw[i])], conditions, max_depth)

(***************************************************************************)
(* store.py batch([ListNamespacesOp(match_conditions, max_depth, limit,    *)
(* offset)]).                                                              *)
(***************************************************************************)
ListNamespaces(conditions, max_depth, limit, offset) ==
    /\ \E raw \in ExecuteListNamespaces(storeRaw, limit, offset) :
          ret' = [op |-> "list_namespaces", conditions |-> conditions,
                  max_depth |-> max_depth, limit |-> limit, offset |-> offset,
                  result |-> TranslateListNamespacesResult(raw, conditions, max_depth)]
    /\ initialized' = TRUE
    /\ UNCHANGED <<now, hasEmbFn, inflight, storeTables, ckptTables>>

\* the calls of the specification of namespace listing: records under
\* ("a",), ("a", "b"), ("a", "c") and ("b",), one of which is also deleted
NsA_C == << <<"a">>, <<"c">> >>          \* ("a", "c")
ListedNamespaces == {NsA, NsA_B, NsA_C, NsB}
NsConditions == {<<>>, <<PrefixCond(NsA)>>, <<PrefixCond(NsA), SuffixCond(NsB)>>}
NsDepths == {None, Some(1)}
NsLimits == {1, 2}
NsOffsets == {0, 1}

NsNext ==
    \/ Tick
    \/ \E ns \in ListedNamespaces : Put(ns, "k1", V1, IndexDisabled)
    \/ Delete(NsA_B, "k1", IndexDisabled)
    \/ \E conditions \in NsConditions, max_depth \in NsDepths,
          limit \in NsLimits, offset \in NsOffsets :
          ListNamespaces(conditions, max_depth, limit, offset)

NsInit == Init /\ ~hasEmbFn

NsSpec == NsInit /\ [][NsNext]_vars

(***************************************************************************)
(* C24: listing namespaces returns the slice [offset, offset + limit) of   *)
(* the distinct namespaces of the live view that satisfy every condition,  *)
(* each cut to its first max_depth segments: no namespace twice, every     *)
(* result one of them, and as many as the slice of that list holds.        *)
(***************************************************************************)
C24Expected(view, conditions, max_depth) ==
    {Truncate(StrToNamespace(r.Namespace), max_depth) :
        r \in {x \in view : Matches(StrToNamespace(x.Namespace), conditions)}}

C24IsSliceOf(expected, result, limit, offset) ==
    /\ \A i, j \in 1..Len(result) : i # j => result[i] # result[j]
    /\ \A i \in 1..Len(result) : result[i] \in expected
    /\ Len(result) = C22PageSize(Cardinality(expected), limit, offset)

C24_ListNamespacesSlicesTheMatches ==
    ret.op = "list_namespaces"
    => \E view \in StoreViews(storeRaw) :
          C24IsSliceOf(C24Expected(view, ret.conditions, ret.max_depth),
                       ret.result, ret.limit, ret.offset)


(***************************************************************************)
(* C25: list(config, limit) yields one tuple for each checkpoint id that   *)
(* is stored under the thread and the checkpoint namespace of config, made *)
(* from its latest row, none of another thread or namespace, newest first, *)
(* and at most limit of them.                                              *)
(***************************************************************************)
C25Stored(view, config) ==
    {r \in view : /\ r.ThreadId = config.thread_id
                  /\ r.CheckpointNamespace = config.checkpoint_ns}

C25Expected(view, config, limit) ==
    {LET taken == IF limit # 0 THEN Take(rows, limit) ELSE rows
     IN  [i \in 1..Len(taken) |-> ListTuple(taken[i])]
     : rows \in OrderByCreatedAtDesc(C25Stored(view, config))}

C25_ListYieldsTheCheckpointsOfConfig ==
    (ret.op = "list" /\ ret.before = "")
    => \E view \in CpViews(cpRaw) : ret.result \in C25Expected(view, ret.config, ret.limit)


(***************************************************************************)
(* C26: put_writes is idempotent: a second call with the same config, task *)
(* id and writes leaves what get_tuple returns for the checkpoint, its     *)
(* pending writes included, as it was after the first call.                *)
(***************************************************************************)
C26SecondCallOf(w) ==
    /\ ret.op = "put_writes" /\ ret'.op = "put_writes"
    /\ ret.config = w[1] /\ ret.task = w[2][1] /\ ret.writes = w[2][2]
    /\ ret'.config = w[1] /\ ret'.task = w[2][1] /\ ret'.writes = w[2][2]

C26RepeatStep ==
    \A w \in PutWritesInputs :
        C26SecondCallOf(w) => (GetTupleResults(w[1]))' = GetTupleResults(w[1])

C26_PutWritesIsIdempotent == [][C26RepeatStep]_vars


(***************************************************************************)
(* C27: list and get_tuple agree on the pending writes of every checkpoint *)
(* of a thread: each tuple that list yields carries pending writes that    *)
(* get_tuple can return for the config of that tuple.                      *)
(***************************************************************************)
C27Agrees(tuple) ==
    \E res \in GetTupleResults(tuple.config) :
        /\ res # None
        /\ res[1].pending_writes = tuple.pending_writes

C27_ListAndGetTupleAgreeOnWrites ==
    ret.op = "list" => \A i \in 1..Len(ret.result) : C27Agrees(ret.result[i])


(***************************************************************************)
(* C28: the first put ever to (namespace, key) is written with its own     *)
(* write time as CreatedAt, whatever records of that key exist under other *)
(* namespaces.                                                             *)
(***************************************************************************)
C28FirstPut ==
    /\ ret.op = "put" /\ ret.fault = ""
    /\ Len(storeRaw) >= 1
    /\ storeRaw[Len(storeRaw)].Namespace = NamespaceToStr(ret.ns)
    /\ storeRaw[Len(storeRaw)].Key = ret.key
    /\ \A i \in 1..(Len(storeRaw) - 1) :
          ~(storeRaw[i].Namespace = NamespaceToStr(ret.ns) /\ storeRaw[i].Key = ret.key)

C28_FirstPutIsCreatedAtItsOwnTime ==
    C28FirstPut => storeRaw[Len(storeRaw)].CreatedAt = ret.at


(***************************************************************************)
(* C29: the live embedding chunks of a record belong to its latest value:  *)
(* after a put every live chunk of (namespace, key) is one of the chunks   *)
(* of the value just put, and after a delete there is none.                *)
(***************************************************************************)
C29LiveChunks(view, ns, key) ==
    {r \in view : r.Namespace = NamespaceToStr(ns) /\ r.ParentKey = key}

C29IsChunkOf(r, chunks) ==
    \E i \in 1..Len(chunks) :
        /\ r.ChunkOrdinal = chunks[i][1]
        /\ r.ChunkString = ReplaceQuotes(chunks[i][2])
        /\ r.Embedding = chunks[i][3]

C29_LiveChunksAreOfTheLatestValue ==
    /\ (ret.op = "put" /\ ret.fault = "")
       => \A view \in EmbViews(embRaw) :
             \A r \in C29LiveChunks(view, ret.ns, ret.key) :
                 C29IsChunkOf(r, EnrichPut(ret.value, ret.index))
    /\ (ret.op = "delete" /\ ret.fault = "")
       => \A view \in EmbViews(embRaw) : C29LiveChunks(view, ret.ns, ret.key) = {}


(***************************************************************************)
(* C30: a put is all-or-nothing with respect to store faults: when the     *)
(* store rejects a query or a command of a put, the fault leaves the call  *)
(* and both raw tables are as they were before that put, so that no main   *)
(* row is persisted without the embedding rows of the same put.            *)
(***************************************************************************)
C30RejectedPut ==
    /\ ret.op = "batch" /\ ret.fault = "rejected"
    /\ ret.ops[ret.executed].kind = "put"
    /\ ret.ops[ret.executed].value # JNull

C30_RejectedPutWritesNothing ==
    C30RejectedPut
    => /\ storeRaw = ret.before[ret.executed].store
       /\ embRaw = ret.before[ret.executed].emb

====
